---- MODULE Spec2Model ----
(***************************************************************************)
(* Model of the candidate ranking engine of cv_ranking.py.                 *)
(*                                                                         *)
(* Strings are sequences of one-character strings.  Scores are integers    *)
(* in millionths of a point (Unit), so that 4.95 is 4950000; divisions     *)
(* round to the nearest millionth and round(x, 2) is Round2.  Python dicts *)
(* are functions from the keys they hold; a key whose JSON value is null   *)
(* is listed in the dict's "none" field instead of being in its domain;    *)
(* a job_requirements argument that is None itself lists "self" there.     *)
(*                                                                         *)
(* The arithmetic is exact where Python's is binary floating point: a      *)
(* value that lies on a rounding tie in decimal (13.975) rounds to even    *)
(* here and may round the other way in Python, a difference of 0.01.       *)
(***************************************************************************)
EXTENDS Integers, Sequences, FiniteSets, TLC

VARIABLES candidates, job_requirements, ranked_candidates, pc, idx,
          prev_ranked, change,
          period, duration, months, bucket_score, dpc,
          company_arg, variant, variation, tier, variant_tier, tpc,
          skills_arg, required_arg, matched_total, mpc,
          cv_files, file_idx, reported, exit_code, mainpc,
          scorer_call, scorer_result, cpc

vars == <<candidates, job_requirements, ranked_candidates, pc, idx,
          prev_ranked, change,
          period, duration, months, bucket_score, dpc,
          company_arg, variant, variation, tier, variant_tier, tpc,
          skills_arg, required_arg, matched_total, mpc,
          cv_files, file_idx, reported, exit_code, mainpc,
          scorer_call, scorer_result, cpc>>

rankVars == <<candidates, job_requirements, ranked_candidates, pc, idx,
              prev_ranked, change>>

durVars == <<period, duration, months, bucket_score, dpc>>

tierVars == <<company_arg, variant, variation, tier, variant_tier, tpc>>

matchVars == <<skills_arg, required_arg, matched_total, mpc>>

mainVars == <<cv_files, file_idx, reported, exit_code, mainpc>>

callVars == <<scorer_call, scorer_result, cpc>>

\* what a call of rank_candidates leaves alone
otherVars == <<durVars, tierVars, matchVars, mainVars, callVars>>

(***************************************************************************)
(* Numbers                                                                 *)
(***************************************************************************)
Unit == 1000 * 1000

Pts(hundredths) == hundredths * (Unit \div 100)

Min(a, b) == IF a <= b THEN a ELSE b

Max(a, b) == IF a >= b THEN a ELSE b

Abs(a) == IF a < 0 THEN -a ELSE a

\* a / b for a >= 0, b > 0, to the nearest millionth
Ratio(a, b) == (2 * a + b) \div (2 * b)

\* round(x, 2) of a non-negative score: nearest hundredth, ties to even
Round2(x) ==
    LET h == Unit \div 100
        q == x \div h
        r == x % h
    IN  IF 2 * r > h THEN (q + 1) * h
        ELSE IF 2 * r < h THEN q * h
        ELSE IF q % 2 = 0 THEN q * h ELSE (q + 1) * h

(***************************************************************************)
(* Strings: str.lower, str.strip, str.replace, str.split, "in"             *)
(***************************************************************************)
UpperChars == <<"A","B","C","D","E","F","G","H","I","J","K","L","M",
                "N","O","P","Q","R","S","T","U","V","W","X","Y","Z","É">>

LowerChars == <<"a","b","c","d","e","f","g","h","i","j","k","l","m",
                "n","o","p","q","r","s","t","u","v","w","x","y","z","é">>

Digits == <<"0","1","2","3","4","5","6","7","8","9">>

IsSpace(c) == c \in {" ", "\t", "\n"}

IsDigit(c) == \E i \in DOMAIN Digits : Digits[i] = c

DigitVal(c) == (CHOOSE i \in DOMAIN Digits : Digits[i] = c) - 1

\* \w of the re module
IsWordChar(c) ==
    \/ IsDigit(c)
    \/ c = "_"
    \/ \E i \in DOMAIN UpperChars : UpperChars[i] = c \/ LowerChars[i] = c

LowerChar(c) ==
    IF \E i \in DOMAIN UpperChars : UpperChars[i] = c
    THEN LowerChars[CHOOSE i \in DOMAIN UpperChars : UpperChars[i] = c]
    ELSE c

Lower(s) == [i \in DOMAIN s |-> LowerChar(s[i])]

\* sub in s
Contains(s, sub) ==
    \E i \in 0..(Len(s) - Len(sub)) :
        \A k \in 1..Len(sub) : s[i + k] = sub[k]

Strip(s) ==
    IF \A i \in DOMAIN s : IsSpace(s[i]) THEN <<>>
    ELSE LET first == CHOOSE i \in DOMAIN s :
                         /\ ~IsSpace(s[i])
                         /\ \A k \in 1..(i - 1) : IsSpace(s[k])
             last  == CHOOSE i \in DOMAIN s :
                         /\ ~IsSpace(s[i])
                         /\ \A k \in (i + 1)..Len(s) : IsSpace(s[k])
         IN  SubSeq(s, first, last)

\* s.replace(c, "") for a one-character c
Remove(s, c) == SelectSeq(s, LAMBDA ch : ch # c)

\* s.split(): the maximal runs of non-space characters, in order
RECURSIVE SplitFrom(_, _)
SplitFrom(s, i) ==
    IF i > Len(s) THEN <<>>
    ELSE IF IsSpace(s[i]) THEN SplitFrom(s, i + 1)
    ELSE LET stop == CHOOSE e \in i..Len(s) :
                        /\ \A k \in i..e : ~IsSpace(s[k])
                        /\ (e = Len(s) \/ IsSpace(s[e + 1]))
         IN  <<SubSeq(s, i, stop)>> \o SplitFrom(s, stop + 1)

Split(s) == SplitFrom(s, 1)

\* int(s) of a string of digits
RECURSIVE ParseInt(_)
ParseInt(s) ==
    IF s = <<>> THEN 0
    ELSE 10 * ParseInt(SubSeq(s, 1, Len(s) - 1)) + DigitVal(s[Len(s)])

\* list helpers
RECURSIVE Flatten(_)
Flatten(ss) == IF ss = <<>> THEN <<>> ELSE Head(ss) \o Flatten(Tail(ss))

RECURSIVE SumSeq(_)
SumSeq(ns) == IF ns = <<>> THEN 0 ELSE Head(ns) + SumSeq(Tail(ns))

\* sum(1 for x in ... if ...), on the sequence of the conditions
Count(conditions) == Cardinality({i \in DOMAIN conditions : conditions[i]})

(***************************************************************************)
(* dict access                                                             *)
(***************************************************************************)
Has(d, k) == k \in DOMAIN d

IsNone(d, k) == k \in d.none

(***************************************************************************)
(* Lookup tables                                                           *)
(***************************************************************************)
Tier1Companies ==
    << <<"g","o","o","g","l","e">>, <<"m","i","c","r","o","s","o","f","t">>,
       <<"a","m","a","z","o","n">>, <<"a","p","p","l","e">>,
       <<"m","e","t","a">>, <<"f","a","c","e","b","o","o","k">>,
       <<"n","e","t","f","l","i","x">>, <<"o","r","a","c","l","e">>,
       <<"s","a","l","e","s","f","o","r","c","e">>, <<"a","d","o","b","e">>,
       <<"n","v","i","d","i","a">>, <<"i","n","t","e","l">>, <<"i","b","m">>,
       <<"c","i","s","c","o">>, <<"v","m","w","a","r","e">>,
       <<"p","a","l","a","n","t","i","r">>, <<"u","b","e","r">>,
       <<"a","i","r","b","n","b">>, <<"l","i","n","k","e","d","i","n">>,
       <<"t","w","i","t","t","e","r">>, <<"x">>, <<"t","e","s","l","a">>,
       <<"s","p","a","c","e","x">>, <<"s","p","o","t","i","f","y">>,
       <<"s","n","a","p">>, <<"s","n","a","p","c","h","a","t">>,
       <<"p","i","n","t","e","r","e","s","t">>, <<"r","e","d","d","i","t">>,
       <<"d","r","o","p","b","o","x">>, <<"t","w","i","t","c","h">>,
       <<"g","i","t","h","u","b">>, <<"a","t","l","a","s","s","i","a","n">>,
       <<"s","l","a","c","k">>, <<"z","o","o","m">>,
       <<"b","y","t","e","d","a","n","c","e">>, <<"t","i","k","t","o","k">>,
       <<"t","e","n","c","e","n","t">>, <<"a","l","i","b","a","b","a">> >>

Tier2Companies ==
    << <<"c","a","p","g","e","m","i","n","i">>,
       <<"a","c","c","e","n","t","u","r","e">>, <<"a","t","o","s">>,
       <<"c","g","i">>, <<"s","o","p","r","a"," ","s","t","e","r","i","a">>,
       <<"d","e","l","o","i","t","t","e">>, <<"p","w","c">>,
       <<"k","p","m","g">>, <<"e","y">>,
       <<"e","r","n","s","t"," ","&"," ","y","o","u","n","g">>,
       <<"t","h","a","l","e","s">>, <<"d","a","s","s","a","u","l","t">>,
       <<"s","o","p","r","a">>, <<"s","t","e","r","i","a">>,
       <<"o","r","a","n","g","e">>, <<"b","o","u","y","g","u","e","s">>,
       <<"h","p">>, <<"d","e","l","l">>, <<"l","e","n","o","v","o">>,
       <<"s","i","e","m","e","n","s">>, <<"b","o","s","c","h">>,
       <<"p","h","i","l","i","p","s">> >>

Tier3Companies ==
    << <<"s","a","p">>, <<"r","e","d"," ","h","a","t">>,
       <<"r","e","d","h","a","t">>, <<"m","o","n","g","o","d","b">>,
       <<"e","l","a","s","t","i","c">>,
       <<"d","a","t","a","b","r","i","c","k","s">>,
       <<"s","n","o","w","f","l","a","k","e">>,
       <<"d","a","t","a","d","o","g">>, <<"s","p","l","u","n","k">>,
       <<"s","e","r","v","i","c","e","n","o","w">>,
       <<"w","o","r","k","d","a","y">>, <<"z","e","n","d","e","s","k">>,
       <<"s","h","o","p","i","f","y">>, <<"s","t","r","i","p","e">>,
       <<"s","q","u","a","r","e">>, <<"p","a","y","p","a","l">>,
       <<"e","b","a","y">>, <<"b","o","o","k","i","n","g">>,
       <<"e","x","p","e","d","i","a">>, <<"t","r","i","v","a","g","o">>,
       <<"d","e","l","i","v","e","r","y"," ","h","e","r","o">>,
       <<"d","o","o","r","d","a","s","h">>,
       <<"i","n","s","t","a","c","a","r","t">>, <<"l","y","f","t">>,
       <<"g","r","a","b">>, <<"g","o","j","e","k">>, <<"y","e","l","p">>,
       <<"g","l","a","s","s","d","o","o","r">> >>

Tier4Companies ==
    << <<"c","r","i","t","e","o">>, <<"b","l","a","b","l","a","c","a","r">>,
       <<"d","o","c","t","o","l","i","b">>, <<"v","e","e","p","e","e">>,
       <<"v","i","n","t","e","d">>, <<"m","a","n","o"," ","m","a","n","o">>,
       <<"b","a","c","k","m","a","r","k","e","t">>, <<"q","o","n","t","o">>,
       <<"a","l","a","n">>, <<"l","e","d","g","e","r">>,
       <<"s","w","i","l","e">>, <<"p","a","y","f","i","t">>,
       <<"c","o","n","t","e","n","t","s","q","u","a","r","e">>,
       <<"a","l","g","o","l","i","a">>, <<"t","a","l","e","n","d">> >>

RECOGNIZED_CERTIFICATIONS ==
    << <<"a","w","s">>, <<"a","z","u","r","e">>, <<"g","c","p">>,
       <<"g","o","o","g","l","e"," ","c","l","o","u","d">>,
       <<"k","u","b","e","r","n","e","t","e","s">>,
       <<"d","o","c","k","e","r">>, <<"s","c","r","u","m">>, <<"p","m","p">>,
       <<"c","i","s","c","o">>, <<"c","c","n","a">>, <<"c","c","n","p">>,
       <<"c","o","m","p","t","i","a">>, <<"i","t","i","l">>,
       <<"o","r","a","c","l","e">>,
       <<"s","a","l","e","s","f","o","r","c","e">>,
       <<"m","i","c","r","o","s","o","f","t">>,
       <<"r","e","d"," ","h","a","t">>, <<"m","o","n","g","o","d","b">> >>

MonthNames ==
    << <<"j","a","n","u","a","r","y">>, <<"f","e","b","r","u","a","r","y">>,
       <<"m","a","r","c","h">>, <<"a","p","r","i","l">>, <<"m","a","y">>,
       <<"j","u","n","e">>, <<"j","u","l","y">>, <<"a","u","g","u","s","t">>,
       <<"s","e","p","t","e","m","b","e","r">>,
       <<"o","c","t","o","b","e","r">>, <<"n","o","v","e","m","b","e","r">>,
       <<"d","e","c","e","m","b","e","r">>, <<"j","a","n","v","i","e","r">>,
       <<"f","e","v","r","i","e","r">>, <<"m","a","r","s">>,
       <<"a","v","r","i","l">>, <<"m","a","i">>, <<"j","u","i","n">>,
       <<"j","u","i","l","l","e","t">>, <<"a","o","u","t">>,
       <<"s","e","p","t","e","m","b","r","e">>,
       <<"o","c","t","o","b","r","e">>, <<"n","o","v","e","m","b","r","e">>,
       <<"d","e","c","e","m","b","r","e">> >>

PresentMarkers ==
    << <<"p","r","e","s","e","n","t">>, <<"e","n"," ","c","o","u","r","s">>,
       <<"i","n"," ","p","r","o","g","r","e","s","s">> >>

DurationUnits ==
    << <<"m","o","i","s">>, <<"m","o","n","t","h">> >>

skill_variations ==
    << << <<"j","a","v","a","s","c","r","i","p","t">>, <<"j","s">>, <<"e","c","m","a","s","c","r","i","p","t">> >>,
       << <<"j","a","v","a">> >>,
       << <<"t","y","p","e","s","c","r","i","p","t">>, <<"t","s">> >>,
       << <<"p","y","t","h","o","n">>, <<"p","y">> >>,
       << <<"s","p","r","i","n","g","b","o","o","t">>, <<"s","p","r","i","n","g">> >>,
       << <<"n","o","d","e","j","s">>, <<"n","o","d","e">> >>,
       << <<"r","e","a","c","t","j","s">>, <<"r","e","a","c","t">> >>,
       << <<"v","u","e","j","s">>, <<"v","u","e">> >>,
       << <<"a","n","g","u","l","a","r","j","s">>, <<"a","n","g","u","l","a","r">> >> >>

fake_keywords ==
    << <<"e","x","a","m","p","l","e">>, <<"d","e","m","o">>,
       <<"t","e","s","t">>, <<"t","u","t","o","r","i","a","l">>,
       <<"h","e","l","l","o"," ","w","o","r","l","d">> >>

junior_keywords ==
    << <<"i","n","t","e","r","n">>, <<"s","t","a","g","e">>,
       <<"j","u","n","i","o","r">>, <<"t","r","a","i","n","e","e">>,
       <<"s","t","a","g","i","a","i","r","e">> >>

senior_keywords ==
    << <<"s","e","n","i","o","r">>, <<"l","e","a","d">>,
       <<"a","r","c","h","i","t","e","c","t">>,
       <<"m","a","n","a","g","e","r">>, <<"c","h","e","f">>,
       <<"p","r","i","n","c","i","p","a","l">>, <<"s","t","a","f","f">> >>

institution_keywords ==
    << <<"e","n","g","i","n","e","e","r","i","n","g">>,
       <<"é","c","o","l","e">>, <<"s","c","h","o","o","l">>,
       <<"u","n","i","v","e","r","s","i","t","y">>,
       <<"u","n","i","v","e","r","s","i","t","é">> >>

SkillCategories ==
    << "programming_languages", "frameworks", "web_technologies",
       "mobile_technologies", "databases", "devops_tools", "data_science",
       "other" >>

(***************************************************************************)
(* Helper functions                                                        *)
(***************************************************************************)
\* "if not company: return ''" covers None and the empty string alike
\* normalize_company_name without lower()
normalize_company_name_cased(company) == Strip(company)

normalize_company_name(company) == Strip(Lower(company))

InList(list, s) == \E i \in DOMAIN list : list[i] = s

\* any(kw in text for kw in keywords)
AnyKeywordIn(keywords, text) ==
    \E i \in DOMAIN keywords : Contains(text, keywords[i])

\* TierMultiplier with the tier4 multiplier for unknown companies
TierMultiplierUnknownAsTier4(tier_name) ==
    CASE tier_name = "tier1" -> 100
      [] tier_name = "tier2" -> 80
      [] tier_name = "tier3" -> 67
      [] OTHER -> 47

TierMultiplier(tier_name) ==
    CASE tier_name = "tier1" -> 100
      [] tier_name = "tier2" -> 80
      [] tier_name = "tier3" -> 67
      [] tier_name = "tier4" -> 47
      [] OTHER -> 33

\* the tier name; the multiplier (in hundredths) is TierMultiplier of it
get_company_tier(company) ==
    LET company_norm == normalize_company_name(company)
    IN  IF AnyKeywordIn(Tier1Companies, company_norm) THEN "tier1"
        ELSE IF AnyKeywordIn(Tier2Companies, company_norm) THEN "tier2"
        ELSE IF AnyKeywordIn(Tier3Companies, company_norm) THEN "tier3"
        ELSE IF AnyKeywordIn(Tier4Companies, company_norm) THEN "tier4"
        ELSE "tier5"

\* the maximal runs of digits of s, as <<first, last>> positions
DigitRuns(s) ==
    {<<b, e>> \in (DOMAIN s) \X (DOMAIN s) :
        /\ b <= e
        /\ \A k \in b..e : IsDigit(s[k])
        /\ (b = 1 \/ ~IsDigit(s[b - 1]))
        /\ (e = Len(s) \/ ~IsDigit(s[e + 1]))}

\* after position e: \s*(?:mois|month|months?)
UnitFollows(s, e) ==
    \E j \in (e + 1)..Len(s) :
        /\ \A k \in (e + 1)..(j - 1) : IsSpace(s[k])
        /\ \E u \in DOMAIN DurationUnits :
              /\ j + Len(DurationUnits[u]) - 1 <= Len(s)
              /\ SubSeq(s, j, j + Len(DurationUnits[u]) - 1) = DurationUnits[u]

\* re.search(r'(\d+)\s*(?:mois|month|months?)', s): the runs that match
DurationMatches(s) == {r \in DigitRuns(s) : UnitFollows(s, r[2])}

\* re.findall(r'\b(20\d{2})\b', s): the positions where a year starts
YearStarts(s) ==
    {i \in 1..(Len(s) - 3) :
        /\ s[i] = "2" /\ s[i + 1] = "0"
        /\ IsDigit(s[i + 2]) /\ IsDigit(s[i + 3])
        /\ (i = 1 \/ ~IsWordChar(s[i - 1]))
        /\ (i + 3 = Len(s) \/ ~IsWordChar(s[i + 4]))}

RECURSIVE SortedSeq(_)
SortedSeq(S) ==
    IF S = {} THEN <<>>
    ELSE LET lo == CHOOSE x \in S : \A y \in S : x <= y
         IN  <<lo>> \o SortedSeq(S \ {lo})

\* the years found, in the order of the text
YearsIn(s) ==
    LET starts == SortedSeq(YearStarts(s))
    IN  [k \in DOMAIN starts |-> ParseInt(SubSeq(s, starts[k], starts[k] + 3))]

\* the month numbers of the month names found, in the order of month_names
MonthsIn(period_lower) ==
    LET found == SelectSeq([i \in DOMAIN MonthNames |-> i],
                           LAMBDA i : Contains(period_lower, MonthNames[i]))
    IN  [k \in DOMAIN found |-> ((found[k] - 1) % 12) + 1]

HasPresentMarker(period_lower) == AnyKeywordIn(PresentMarkers, period_lower)

\* int(match.group(1)) of the leftmost match in duration.lower()
DurationNumber(duration_lower, matches) ==
    LET first == CHOOSE r \in matches : \A q \in matches : r[1] <= q[1]
    IN  ParseInt(SubSeq(duration_lower, first[1], first[2]))

\* the period branch, once the years and the months of the text are found
PeriodMonths(present, years, mths) ==
    IF present THEN 2
    ELSE IF Len(years) >= 2 THEN (years[2] - years[1]) * 12
    ELSE IF Len(mths) >= 2 THEN Abs(mths[2] - mths[1])
    ELSE 2

\* months, a whole number; None and "" are both the empty string here
extract_duration_months(per, dur) ==
    IF dur # <<>> /\ DurationMatches(Lower(dur)) # {}
    THEN DurationNumber(Lower(dur), DurationMatches(Lower(dur)))
    ELSE IF per = <<>> THEN 0
    ELSE PeriodMonths(HasPresentMarker(Lower(per)), YearsIn(per),
                      MonthsIn(Lower(per)))

normalize_skill(skill) == Remove(Remove(Strip(Lower(skill)), "."), " ")

SameVariationGroup(a, b) ==
    \E g \in DOMAIN skill_variations :
        InList(skill_variations[g], a) /\ InList(skill_variations[g], b)

\* SkillMatches with containment at any difference of length
SkillMatchesAnyLength(req_skill, cand_skill) ==
    \/ req_skill = cand_skill
    \/ SameVariationGroup(req_skill, cand_skill)
    \/ /\ Len(req_skill) > 3 /\ Len(cand_skill) > 3
       /\ Contains(cand_skill, req_skill) \/ Contains(req_skill, cand_skill)

\* one pass of the inner loop of match_skills, on normalized names
SkillMatches(req_skill, cand_skill) ==
    \/ req_skill = cand_skill
    \/ SameVariationGroup(req_skill, cand_skill)
    \/ /\ Len(req_skill) > 3 /\ Len(cand_skill) > 3
       /\ Contains(cand_skill, req_skill) \/ Contains(req_skill, cand_skill)
       /\ Abs(Len(req_skill) - Len(cand_skill)) <= 4

\* MatchedCount with the outer loop left after the first required skill
MatchedCountFirstOnly(candidate_skills, required_skills) ==
    Cardinality({r \in DOMAIN required_skills :
        /\ r = 1
        /\ \E c \in DOMAIN candidate_skills :
              SkillMatches(normalize_skill(required_skills[r]),
                           normalize_skill(candidate_skills[c]))})

\* MatchedCount with the inner loop run to its end after a match
MatchedCountNoBreak(candidate_skills, required_skills) ==
    Cardinality({rc \in (DOMAIN required_skills) \X (DOMAIN candidate_skills) :
        SkillMatches(normalize_skill(required_skills[rc[1]]),
                     normalize_skill(candidate_skills[rc[2]]))})

\* the number of required skills some candidate skill matches
MatchedCount(candidate_skills, required_skills) ==
    Cardinality({r \in DOMAIN required_skills :
        \E c \in DOMAIN candidate_skills :
            SkillMatches(normalize_skill(required_skills[r]),
                         normalize_skill(candidate_skills[c]))})

\* <<matched, total>>
match_skills(candidate_skills, required_skills) ==
    IF required_skills = <<>> THEN <<0, 0>>
    ELSE <<MatchedCount(candidate_skills, required_skills),
           Len(required_skills)>>

(***************************************************************************)
(* score_experience_quality                                                *)
(***************************************************************************)
\* d.get(k, "") of a string field; a None value is falsy like ""
StrOf(d, k) == IF Has(d, k) THEN d[k] ELSE <<>>

\* d.get(k, []) of a list field
ListOf(d, k) == IF Has(d, k) THEN d[k] ELSE <<>>

current_year == 2026

\* RoleSkillScore counting the required skills that are not matched
RoleSkillScoreUnmatched(m) ==
    IF m[1] > 0 THEN Ratio(10 * Unit * (m[2] - m[1]), m[2]) ELSE 0

\* (matched / total) * 10 of the entry's technologies
RoleSkillScore(m) == IF m[1] > 0 THEN Ratio(10 * Unit * m[1], m[2]) ELSE 0

\* the share of the job role's keywords found in the entry's role
RoleKeywordScore(role_norm, role_keywords) ==
    LET matches == Count([i \in DOMAIN role_keywords |->
                             /\ Contains(role_norm, role_keywords[i])
                             /\ Len(role_keywords[i]) > 3])
    IN  IF matches > 0
        THEN Ratio(10 * Unit * matches, Max(Len(role_keywords), 1))
        ELSE 0

RoleScore(exp, job_role, required_skills) ==
    IF required_skills # <<>> /\ ListOf(exp, "technologies") # <<>>
    THEN RoleSkillScore(match_skills(ListOf(exp, "technologies"),
                                     required_skills))
    ELSE IF job_role # <<>>
    THEN RoleKeywordScore(normalize_company_name(StrOf(exp, "role")),
                          Split(normalize_company_name(job_role)))
    ELSE 5 * Unit

\* DurationBucket with the 6-month boundary in the next bucket
DurationBucketOpenAtSix(duration_months) ==
    IF duration_months < 3 THEN 2 * Unit
    ELSE IF 3 <= duration_months /\ duration_months < 6 THEN 5 * Unit
    ELSE IF 6 <= duration_months /\ duration_months <= 12 THEN 7 * Unit
    ELSE IF 12 < duration_months /\ duration_months <= 24 THEN 9 * Unit
    ELSE 10 * Unit

DurationBucket(duration_months) ==
    IF duration_months < 3 THEN 2 * Unit
    ELSE IF 3 <= duration_months /\ duration_months <= 6 THEN 5 * Unit
    ELSE IF 6 < duration_months /\ duration_months <= 12 THEN 7 * Unit
    ELSE IF 12 < duration_months /\ duration_months <= 24 THEN 9 * Unit
    ELSE IF 24 < duration_months /\ duration_months <= 36 THEN 10 * Unit
    ELSE 10 * Unit

\* the bonus by the last year of the period text
RecencyOfYears(years) ==
    LET years_ago == current_year - years[Len(years)]
    IN  IF years = <<>> THEN 0
        ELSE IF years_ago <= 1 THEN Pts(150)
        ELSE IF years_ago <= 2 THEN Unit
        ELSE IF years_ago >= 5 THEN -Unit
        ELSE 0

RecencyBonus(per) ==
    IF per = <<>> THEN 0
    ELSE IF HasPresentMarker(Lower(per)) THEN 2 * Unit
    ELSE RecencyOfYears(YearsIn(per))

\* one pass of the loop over the experiences: the entry of "details", with
\* the unrounded exp_score next to the rounded fields
DetailOf(company, tier_name, role_score, duration_months, recency) ==
    LET company_score == 15 * Pts(TierMultiplier(tier_name))
        duration_score ==
            Min(DurationBucket(duration_months) + recency, 10 * Unit)
        exp_score == company_score + role_score + duration_score
    IN  [company |-> company,
         tier |-> tier_name,
         company_score |-> Round2(company_score),
         role_score |-> Round2(role_score),
         duration_months |-> duration_months,
         duration_score |-> Round2(duration_score),
         experience_score |-> Round2(exp_score),
         exp_score |-> exp_score]

ExperienceDetail(exp, job_role, required_skills) ==
    DetailOf(StrOf(exp, "company"),
             get_company_tier(StrOf(exp, "company")),
             RoleScore(exp, job_role, required_skills),
             extract_duration_months(StrOf(exp, "period"),
                                     StrOf(exp, "duration")),
             RecencyBonus(StrOf(exp, "period")))

RECURSIVE SortDesc(_)
SortDesc(ns) ==
    IF ns = <<>> THEN <<>>
    ELSE LET i == CHOOSE i \in DOMAIN ns : \A k \in DOMAIN ns : ns[i] >= ns[k]
         IN  <<ns[i]>> \o SortDesc(SubSeq(ns, 1, i - 1) \o SubSeq(ns, i + 1, Len(ns)))

\* ExperienceAggregate with the bonus of 1.5 per further entry left uncapped
ExperienceAggregateNoBonusCap(experience_scores) ==
    LET sorted_scores == SortDesc(experience_scores)
        other_avg == Ratio(SumSeq(Tail(sorted_scores)), Len(sorted_scores) - 1)
    IN  IF Len(experience_scores) = 1
        THEN Min(experience_scores[1], 35 * Unit)
        ELSE Min(Ratio(sorted_scores[1] + other_avg, 2)
                   + (Len(experience_scores) - 1) * Pts(150), 35 * Unit)

\* the aggregate of the per-entry scores, before round(, 2)
ExperienceAggregate(experience_scores) ==
    LET sorted_scores == SortDesc(experience_scores)
        best_score == sorted_scores[1]
        other_scores == Tail(sorted_scores)
        other_avg == Ratio(SumSeq(other_scores), Len(other_scores))
        weighted_score == Ratio(best_score + other_avg, 2)
        multi_exp_bonus == Min(Len(experience_scores) - 1, 3) * Pts(150)
    IN  IF Len(experience_scores) = 1
        THEN Min(experience_scores[1], 35 * Unit)
        ELSE Min(weighted_score + multi_exp_bonus, 35 * Unit)

\* [score, details]
ExperienceResult(details) ==
    [score |-> Round2(ExperienceAggregate(
                   [i \in DOMAIN details |-> details[i].exp_score])),
     details |-> details]

score_experience_quality(experiences, job_role, required_skills) ==
    IF experiences = <<>>
    THEN [score |-> 0, details |-> <<>>]
    ELSE ExperienceResult(
             [i \in DOMAIN experiences |->
                 ExperienceDetail(experiences[i], job_role, required_skills)])

(***************************************************************************)
(* score_technical_skills                                                  *)
(***************************************************************************)
\* the keys a dict holds ("none" is the model's list of its null keys)
Keys(d) == (DOMAIN d) \ {"none"}

\* "not d" of a dict that is not None
DictEmpty(d) == Keys(d) = {} /\ d.none = {}

\* the categories of the skills dict, flattened in the order of the code
AllSkills(skills) ==
    Flatten([i \in DOMAIN SkillCategories |-> ListOf(skills, SkillCategories[i])])

\* normalize_skill(a) in normalize_skill(b) or the other way round
Within(a_norm, b_norm) ==
    Contains(b_norm, a_norm) \/ Contains(a_norm, b_norm)

Overlaps(a, b) == Within(normalize_skill(a), normalize_skill(b))

\* how many entries of xs overlap some entry of ys
UsageCount(xs, ys) ==
    Count([i \in DOMAIN xs |-> \E k \in DOMAIN ys : Overlaps(xs[i], ys[k])])

CoreMatchScore(all_skills, required_skills) ==
    LET m == match_skills(all_skills, required_skills)
    IN  IF required_skills # <<>>
        THEN IF m[2] > 0 THEN Ratio(15 * Unit * m[1], m[2]) ELSE 0
        ELSE Min(10 * Unit, Len(all_skills) * Pts(50))

\* DepthScore without the cap of 5 on usage plus combination bonus
DepthScoreUncapped(skills, all_skills, experience_technologies) ==
    LET usage == IF experience_technologies # <<>> /\ Len(all_skills) > 0
                 THEN Ratio(5 * Unit * UsageCount(all_skills, experience_technologies),
                            Len(all_skills))
                 ELSE 0
        has_languages == Len(ListOf(skills, "programming_languages")) > 0
        has_frameworks == Len(ListOf(skills, "frameworks")) > 0
        combo == IF has_languages /\ has_frameworks THEN 2 * Unit ELSE 0
    IN  usage + combo

DepthScore(skills, all_skills, experience_technologies) ==
    LET usage == IF experience_technologies # <<>> /\ Len(all_skills) > 0
                 THEN Ratio(5 * Unit * UsageCount(all_skills, experience_technologies),
                            Len(all_skills))
                 ELSE 0
        has_languages == Len(ListOf(skills, "programming_languages")) > 0
        has_frameworks == Len(ListOf(skills, "frameworks")) > 0
        combo == IF has_languages /\ has_frameworks THEN 2 * Unit ELSE 0
    IN  Min(usage + combo, 5 * Unit)

\* [score, matched]: matched is details["core_match"].get("matched", 0)
score_technical_skills(skills, required_skills, experience_technologies) ==
    LET all_skills == AllSkills(skills)
        score == CoreMatchScore(all_skills, required_skills)
                   + DepthScore(skills, all_skills, experience_technologies)
    IN  IF DictEmpty(skills) \/ all_skills = <<>>
        THEN [score |-> 0, matched |-> 0]
        ELSE [score |-> Round2(Min(score, 25 * Unit)),
              matched |-> match_skills(all_skills, required_skills)[1]]

(***************************************************************************)
(* score_projects_impact                                                   *)
(***************************************************************************)
IsFake(project) ==
    \E i \in DOMAIN fake_keywords :
        \/ Contains(Lower(StrOf(project, "title")), fake_keywords[i])
        \/ Contains(Lower(StrOf(project, "description")), fake_keywords[i])

ExpTechnologies(experiences) ==
    Flatten([i \in DOMAIN experiences |-> ListOf(experiences[i], "technologies")])

\* matched of match_skills(technologies, required_skills), 0 when not called
ProjectMatched(project, required_skills) ==
    IF required_skills # <<>> /\ ListOf(project, "technologies") # <<>>
    THEN match_skills(ListOf(project, "technologies"), required_skills)[1]
    ELSE 0

ProjectRelevance(project, required_skills) ==
    LET matched == ProjectMatched(project, required_skills)
    IN  IF matched >= 3 THEN Pts(250)
        ELSE IF matched = 2 THEN Pts(150)
        ELSE IF matched = 1 THEN Unit
        ELSE 0

\* the quality indicators one project that is not fake adds
ProjectQuality(project, experiences, required_skills) ==
    LET description == StrOf(project, "description")
        technologies == ListOf(project, "technologies")
        exp_techs == ExpTechnologies(experiences)
    IN  (IF Len(description) > 50 THEN 1 ELSE 0)
        + (IF Len(technologies) >= 3 THEN 1 ELSE 0)
        + (IF ProjectMatched(project, required_skills) > 0 THEN 1 ELSE 0)
        + (IF experiences # <<>> /\ technologies # <<>>
              /\ UsageCount(technologies, exp_techs) > 0 THEN 1 ELSE 0)

ProjectBase(n_projects, quality_indicators) ==
    IF n_projects >= 3 /\ quality_indicators >= n_projects * 2 THEN 15 * Unit
    ELSE IF n_projects >= 3 /\ quality_indicators >= n_projects THEN 13 * Unit
    ELSE IF n_projects <= 2 /\ quality_indicators >= n_projects * 2 THEN 12 * Unit
    ELSE IF n_projects <= 2 /\ quality_indicators >= n_projects THEN 10 * Unit
    ELSE IF n_projects > 5 THEN 8 * Unit
    ELSE 6 * Unit

\* RelevancePenalty with the mild penalty at exactly half of the projects too
RelevancePenaltyAtHalf(required_skills, projects_with_relevance, n_projects) ==
    IF required_skills # <<>> /\ projects_with_relevance = 0 THEN -6 * Unit
    ELSE IF required_skills # <<>> /\ 2 * projects_with_relevance <= n_projects
    THEN -3 * Unit
    ELSE 0

RelevancePenalty(required_skills, projects_with_relevance, n_projects) ==
    IF required_skills # <<>> /\ projects_with_relevance = 0 THEN -6 * Unit
    ELSE IF required_skills # <<>> /\ 2 * projects_with_relevance < n_projects
    THEN -3 * Unit
    ELSE 0

\* the score before the final clamp to [0, 20]
ProjectsScoreOf(projects, real, experiences, required_skills) ==
    LET fakes == Len(projects) - Len(real)
        quality_indicators ==
            SumSeq([i \in DOMAIN real |->
                       ProjectQuality(real[i], experiences, required_skills)])
        relevance_bonus ==
            Min(SumSeq([i \in DOMAIN real |->
                           ProjectRelevance(real[i], required_skills)]), 5 * Unit)
        projects_with_relevance ==
            Count([i \in DOMAIN real |->
                      ProjectMatched(real[i], required_skills) > 0])
    IN  -2 * Unit * fakes
        + ProjectBase(Len(projects), quality_indicators)
        + relevance_bonus
        + RelevancePenalty(required_skills, projects_with_relevance, Len(projects))

ProjectsRawScore(projects, experiences, required_skills) ==
    ProjectsScoreOf(projects, SelectSeq(projects, LAMBDA p : ~IsFake(p)),
                    experiences, required_skills)

\* ProjectsClamp without the floor at 0
ProjectsClampNoFloor(score) == Min(score, 20 * Unit)

ProjectsClamp(score) == Max(0, Min(score, 20 * Unit))

score_projects_impact(projects, experiences, required_skills) ==
    IF projects = <<>> THEN 5 * Unit
    ELSE Round2(ProjectsClamp(ProjectsRawScore(projects, experiences, required_skills)))

(***************************************************************************)
(* score_education_certifications                                          *)
(***************************************************************************)
\* any(kw in field_norm for kw in job_field_norm.split() if len(kw) > 3)
FieldRelevant(edu, job_field) ==
    LET field_norm == normalize_company_name(StrOf(edu, "field"))
        kws == Split(normalize_company_name(job_field))
    IN  /\ job_field # <<>>
        /\ \E i \in DOMAIN kws : Len(kws[i]) > 3 /\ Contains(field_norm, kws[i])

\* the number of entries the first loop visits: it breaks at a relevant field
RelevantEntries(education, job_field) ==
    {i \in DOMAIN education : FieldRelevant(education[i], job_field)}

VisitedUpTo(education, relevant) ==
    IF relevant # {}
    THEN CHOOSE i \in relevant : \A k \in relevant : i <= k
    ELSE Len(education)

EducationVisited(education, job_field) ==
    VisitedUpTo(education, RelevantEntries(education, job_field))

\* highest_degree after the first n entries; 0 stands for None
RECURSIVE HighestDegree(_, _)
HighestDegree(education, n) ==
    IF n = 0 THEN 0
    ELSE LET before == HighestDegree(education, n - 1)
         IN  IF \/ before = 0
                \/ DictEmpty(education[before])
                \/ StrOf(education[n], "degree") # <<>>
             THEN n ELSE before

DegreeLevel(edu) ==
    LET degree_text == Lower(StrOf(edu, "degree"))
    IN  IF Contains(degree_text, <<"m","a","s","t","e","r">>) THEN 2 * Unit
        ELSE IF \/ Contains(degree_text, <<"b","a","c","h","e","l","o","r">>)
                \/ Contains(degree_text, <<"l","i","c","e","n","c","e">>)
        THEN Pts(150)
        ELSE Unit

DegreeBase(education, highest) ==
    IF highest # 0 /\ ~DictEmpty(education[highest])
    THEN DegreeLevel(education[highest]) ELSE 0

DegreeScore(education, job_field) ==
    IF education = <<>> THEN 0
    ELSE Min((IF RelevantEntries(education, job_field) # {}
              THEN 3 * Unit ELSE 0)
             + DegreeBase(education,
                          HighestDegree(education,
                                        EducationVisited(education, job_field))),
             5 * Unit)

InstitutionScore(education) ==
    IF \E i \in DOMAIN education :
          AnyKeywordIn(institution_keywords, Lower(StrOf(education[i], "institution")))
    THEN Min(Pts(150), 3 * Unit)
    ELSE 0

CertScore(certifications) ==
    LET recognized_count ==
            Count([i \in DOMAIN certifications |->
                      AnyKeywordIn(RECOGNIZED_CERTIFICATIONS,
                                   Lower(certifications[i]))])
    IN  IF recognized_count > 0 THEN Min(2 * Unit, recognized_count * Pts(50)) ELSE 0

score_education_certifications(education, certifications, job_field) ==
    Round2(Min(DegreeScore(education, job_field) + InstitutionScore(education)
                 + CertScore(certifications), 10 * Unit))

(***************************************************************************)
(* score_signal_consistency                                                *)
(***************************************************************************)
\* skills against the technologies of the experiences
StackIssues(all_skills, exp_technologies, matched_skills) ==
    IF exp_technologies # <<>> /\ all_skills # <<>>
    THEN IF 10 * matched_skills < 3 * Len(all_skills) THEN 2
         ELSE IF 2 * matched_skills < Len(all_skills) THEN 1
         ELSE 0
    ELSE 0

\* the technologies of the projects against the skills
ProjectIssues(all_skills, project_techs, matched) ==
    IF project_techs # <<>> /\ all_skills # <<>>
       /\ 10 * matched < 3 * Len(project_techs)
    THEN 1 ELSE 0

ProjectTechs(projects) ==
    Flatten([i \in DOMAIN projects |-> ListOf(projects[i], "technologies")])

\* coherence_issues
CoherenceIssues(experiences, projects, all_skills) ==
    StackIssues(all_skills, ExpTechnologies(experiences),
                UsageCount(all_skills, ExpTechnologies(experiences)))
    + ProjectIssues(all_skills, ProjectTechs(projects),
                    UsageCount(ProjectTechs(projects), all_skills))

\* " ".join(roles)
RECURSIVE JoinWithSpace(_)
JoinWithSpace(ss) ==
    IF ss = <<>> THEN <<>>
    ELSE IF Len(ss) = 1 THEN ss[1]
    ELSE ss[1] \o <<" ">> \o JoinWithSpace(Tail(ss))

\* career_issues, in halves: +1 for stuck in junior roles, -1 for progression
CareerIssuesHalves(experiences) ==
    LET roles == JoinWithSpace([i \in DOMAIN experiences |->
                                   Lower(StrOf(experiences[i], "role"))])
        has_junior == AnyKeywordIn(junior_keywords, roles)
        has_senior == AnyKeywordIn(senior_keywords, roles)
    IN  (IF has_junior /\ ~has_senior /\ Len(experiences) > 3 THEN 1 ELSE 0)
        - (IF has_junior /\ has_senior THEN 1 ELSE 0)

\* min(max(career_issues * 1.5, -1.5), 3.0)
CareerDeduction(experiences) ==
    Min(Max(CareerIssuesHalves(experiences) * Pts(75), -Pts(150)), 3 * Unit)

HasEmail(cv_data) ==
    /\ Has(cv_data, "personal_info")
    /\ StrOf(cv_data["personal_info"], "email") # <<>>

\* RedFlagHalves with the many-skills flag raised with experience as well
RedFlagHalvesAnyExperience(cv_data, experiences, all_skills) ==
    LET exp_technologies == ExpTechnologies(experiences)
        tech_counter == {normalize_skill(exp_technologies[i]) :
                            i \in DOMAIN exp_technologies}
    IN  (IF Len(all_skills) > 10 THEN 2 ELSE 0)
        + (IF Cardinality(tech_counter) > 15 /\ Len(experiences) < 3 THEN 2 ELSE 0)
        + (IF ~HasEmail(cv_data) THEN 1 ELSE 0)

\* red_flag_count, in halves
RedFlagHalves(cv_data, experiences, all_skills) ==
    LET exp_technologies == ExpTechnologies(experiences)
        tech_counter == {normalize_skill(exp_technologies[i]) :
                            i \in DOMAIN exp_technologies}
    IN  (IF Len(all_skills) > 10 /\ Len(experiences) = 0 THEN 2 ELSE 0)
        + (IF Cardinality(tech_counter) > 15 /\ Len(experiences) < 3 THEN 2 ELSE 0)
        + (IF ~HasEmail(cv_data) THEN 1 ELSE 0)

RedFlagDeduction(cv_data, experiences, all_skills) ==
    Min(RedFlagHalves(cv_data, experiences, all_skills) * Pts(25), 2 * Unit)

score_signal_consistency(cv_data, experiences, projects, skills) ==
    LET all_skills == AllSkills(skills)
        coherence_deduction ==
            Min(CoherenceIssues(experiences, projects, all_skills) * Unit, 5 * Unit)
        score == 10 * Unit - coherence_deduction - CareerDeduction(experiences)
                   - RedFlagDeduction(cv_data, experiences, all_skills)
    IN  Round2(Max(0, score))

(***************************************************************************)
(* rank_candidates: the body of the loop over the candidates               *)
(***************************************************************************)
\* the exceptions of the loop body: a None where the code calls a method of
\* the value, iterates it or takes its len()
RaisesOnNone(candidate) ==
    LET experiences == ListOf(candidate, "experience")
        projects == ListOf(candidate, "projects")
        education == ListOf(candidate, "education")
        hasKw(i) == AnyKeywordIn(institution_keywords,
                                 Lower(StrOf(education[i], "institution")))
    IN  \/ IsNone(candidate, "experience")                \* for exp in experiences
        \/ \E i \in DOMAIN experiences :
              \/ IsNone(experiences[i], "technologies")   \* extend(None)
              \/ IsNone(experiences[i], "role")           \* None.lower()
        \/ /\ Has(candidate, "skills")
           /\ \E k \in candidate["skills"].none : InList(SkillCategories, k)
        \/ IsNone(candidate, "skills")                    \* None.get()
        \/ \E i \in DOMAIN projects :
              \/ IsNone(projects[i], "title")             \* None.lower()
              \/ /\ IsNone(projects[i], "description")
                 /\ ~Contains(Lower(StrOf(projects[i], "title")), fake_keywords[1])
              \/ IsNone(projects[i], "technologies")      \* extend(None)
        \/ IsNone(candidate, "education")                 \* len(None)
        \/ IsNone(candidate, "certifications")            \* len(None)
        \/ \E i \in DOMAIN education :
              /\ IsNone(education[i], "institution")      \* None.lower()
              /\ \A k \in 1..(i - 1) : ~hasKw(k)
        \/ IsNone(candidate, "personal_info")             \* None.get()

\* highest_degree.get("degree", "").lower() with a None degree
RaisesOnDegree(candidate, job_field) ==
    LET education == ListOf(candidate, "education")
        highest == HighestDegree(education, EducationVisited(education, job_field))
    IN  /\ education # <<>>
        /\ highest # 0
        /\ IsNone(education[highest], "degree")

\* max(exp_details, key=experience_score): the first of the greatest
BestIndex(details) ==
    CHOOSE i \in DOMAIN details :
        /\ \A k \in DOMAIN details :
              details[i].experience_score >= details[k].experience_score
        /\ \A k \in 1..(i - 1) :
              details[k].experience_score < details[i].experience_score

BestExperience(details) == details[BestIndex(details)]

\* len(company_name) with a None company
RaisesOnCompany(candidate, job_role, required_skills) ==
    LET experiences == ListOf(candidate, "experience")
        details == score_experience_quality(experiences, job_role,
                                            required_skills).details
    IN  /\ experiences # <<>>
        /\ IsNone(experiences[BestIndex(details)], "company")

ShortCompany(company_name) ==
    IF Len(company_name) > 30
    THEN SubSeq(company_name, 1, 27) \o <<".", ".", ".">>
    ELSE company_name

\* "/".join(required_skills[:2])
SkillStr(required_skills) ==
    IF Len(required_skills) >= 2
    THEN required_skills[1] \o <<"/">> \o required_skills[2]
    ELSE required_skills[1]

Phrase(text, arg) == [phrase |-> text, arg |-> arg]

ExperiencePhrase(exp) ==
    LET company_name == ShortCompany(BestExperience(exp.details).company)
    IN  IF exp.details = <<>> THEN <<>>
        ELSE IF exp.score >= 25 * Unit
        THEN <<Phrase("+ Strong experience at", company_name)>>
        ELSE IF exp.score >= 15 * Unit
        THEN <<Phrase("+ Good experience at", company_name)>>
        ELSE IF exp.score < 10 * Unit
        THEN <<Phrase("- Limited experience", <<>>)>>
        ELSE <<>>

TechnicalPhrase(tech, required_skills) ==
    IF tech.matched > 0 /\ required_skills # <<>>
    THEN IF tech.score >= 18 * Unit
         THEN <<Phrase("+ High relevance", SkillStr(required_skills))>>
         ELSE IF tech.score >= 12 * Unit
         THEN <<Phrase("+ Good technical skills match", <<>>)>>
         ELSE <<Phrase("- Lower technical skills relevance", <<>>)>>
    ELSE IF tech.score < 10 * Unit
    THEN <<Phrase("- Lower technical skills relevance", <<>>)>>
    ELSE <<>>

ProjectsPhrase(proj_score) ==
    IF proj_score >= 15 * Unit THEN <<Phrase("+ Strong projects", <<>>)>>
    ELSE IF proj_score < 8 * Unit THEN <<Phrase("- Fewer personal projects", <<>>)>>
    ELSE <<>>

SignalPhrase(signal_score) ==
    IF signal_score < 7 * Unit THEN <<Phrase("- CV consistency issues", <<>>)>>
    ELSE <<>>

\* explanation_parts, or the one default phrase when there are none
Explanation(parts) ==
    IF parts = <<>> THEN <<Phrase("Standard candidate profile", <<>>)>> ELSE parts

\* TotalScore with the signal score deducted instead of added
TotalScoreMinus(exp_score, tech_score, proj_score, edu_score, signal_score) ==
    exp_score + tech_score + proj_score + edu_score - signal_score

TotalScore(exp_score, tech_score, proj_score, edu_score, signal_score) ==
    exp_score + tech_score + proj_score + edu_score + signal_score

\* whether the loop body raises for this candidate
Raises(candidate, job) ==
    \/ RaisesOnNone(candidate)
    \/ RaisesOnDegree(candidate, StrOf(job, "field"))
    \/ RaisesOnCompany(candidate, StrOf(job, "role"), ListOf(job, "required_skills"))

\* the dict the loop body appends to ranked_candidates (rank is added last)
EntryOf(candidate, required_skills, exp, tech, proj_score, edu_score, signal_score) ==
    [candidate_name |->
             IF Has(candidate, "personal_info")
                   /\ (Has(candidate["personal_info"], "full_name")
                         \/ IsNone(candidate["personal_info"], "full_name"))
             THEN StrOf(candidate["personal_info"], "full_name")
             ELSE <<"U","n","k","n","o","w","n">>,
         total_score |->
             Round2(TotalScore(exp.score, tech.score, proj_score, edu_score,
                               signal_score)),
         scores |-> [experience_quality |-> exp.score,
                     technical_skills |-> tech.score,
                     projects_impact |-> proj_score,
                     education_certifications |-> edu_score,
                     signal_consistency |-> signal_score],
         explanation |->
             Explanation(ExperiencePhrase(exp)
                           \o TechnicalPhrase(tech, required_skills)
                           \o ProjectsPhrase(proj_score)
                           \o SignalPhrase(signal_score)),
         experience_details |-> exp.details,
         raw_data |-> candidate,
         rank |-> 0]

SkillsOf(candidate) ==
    IF Has(candidate, "skills") THEN candidate["skills"] ELSE [none |-> {}]

RankEntry(candidate, job) ==
    EntryOf(candidate, ListOf(job, "required_skills"),
            score_experience_quality(ListOf(candidate, "experience"),
                                     StrOf(job, "role"),
                                     ListOf(job, "required_skills")),
            score_technical_skills(SkillsOf(candidate),
                                   ListOf(job, "required_skills"),
                                   ExpTechnologies(ListOf(candidate, "experience"))),
            score_projects_impact(ListOf(candidate, "projects"),
                                  ListOf(candidate, "experience"),
                                  ListOf(job, "required_skills")),
            score_education_certifications(ListOf(candidate, "education"),
                                           ListOf(candidate, "certifications"),
                                           StrOf(job, "field")),
            score_signal_consistency(candidate,
                                     ListOf(candidate, "experience"),
                                     ListOf(candidate, "projects"),
                                     SkillsOf(candidate)))

(***************************************************************************)
(* rank_candidates: sort, tie-break pass, rank assignment                  *)
(***************************************************************************)
\* SortByTotalDesc as an unstable sort: of equal totals the last comes first
RECURSIVE SortByTotalDescUnstable(_)
SortByTotalDescUnstable(entries) ==
    IF entries = <<>> THEN <<>>
    ELSE LET i == CHOOSE i \in DOMAIN entries :
                     /\ \A k \in DOMAIN entries :
                           entries[i].total_score >= entries[k].total_score
                     /\ \A k \in (i + 1)..Len(entries) :
                           entries[k].total_score < entries[i].total_score
         IN  <<entries[i]>>
               \o SortByTotalDescUnstable(SubSeq(entries, 1, i - 1)
                                            \o SubSeq(entries, i + 1, Len(entries)))

\* list.sort(key=total_score, reverse=True): stable, equal totals keep order
RECURSIVE SortByTotalDesc(_)
SortByTotalDesc(entries) ==
    IF entries = <<>> THEN <<>>
    ELSE LET i == CHOOSE i \in DOMAIN entries :
                     /\ \A k \in DOMAIN entries :
                           entries[i].total_score >= entries[k].total_score
                     /\ \A k \in 1..(i - 1) :
                           entries[k].total_score < entries[i].total_score
         IN  <<entries[i]>>
               \o SortByTotalDesc(SubSeq(entries, 1, i - 1)
                                    \o SubSeq(entries, i + 1, Len(entries)))

\* CloseGap with a window of 3.0 instead of 2.0
CloseGapWide(current, next) ==
    LET score_diff == current.total_score - next.total_score
    IN  0 < score_diff /\ score_diff <= 3 * Unit

\* CloseGap with a window of 1.0 instead of 2.0
CloseGapNarrow(current, next) ==
    LET score_diff == current.total_score - next.total_score
    IN  0 < score_diff /\ score_diff <= Unit

\* 0 < score_diff <= 2.0
CloseGap(current, next) ==
    LET score_diff == current.total_score - next.total_score
    IN  0 < score_diff /\ score_diff <= 2 * Unit

\* ShouldSwap on any weaker criterion, whatever the criteria before it
ShouldSwapAnyCriterion(current, next) ==
    /\ CloseGap(current, next)
    /\ \/ current.scores.experience_quality < next.scores.experience_quality
       \/ current.scores.technical_skills < next.scores.technical_skills
       \/ current.scores.projects_impact < next.scores.projects_impact

\* the three tie-breaks of one step of the pass
ShouldSwap(current, next) ==
    /\ CloseGap(current, next)
    /\ \/ current.scores.experience_quality < next.scores.experience_quality
       \/ /\ current.scores.experience_quality = next.scores.experience_quality
          /\ current.scores.technical_skills < next.scores.technical_skills
       \/ /\ current.scores.experience_quality = next.scores.experience_quality
          /\ current.scores.technical_skills = next.scores.technical_skills
          /\ current.scores.projects_impact < next.scores.projects_impact

SwapAt(entries, i) ==
    [entries EXCEPT ![i] = entries[i + 1], ![i + 1] = entries[i]]

\* the list of the call before kept, as a list that outlives the call would be
KeptRankedList(old) == old

\* ranked_candidates = [] at the start of a call
NewRankedList(old) == <<>>

(***************************************************************************)
(* Inputs                                                                  *)
(***************************************************************************)
MaxCandidates == 2

MaxRequired == 1

LongDescription ==
    <<"S","c","o","r","e","s"," ","a","n","d"," ","r","a","n","k","s"," ","c",
      "a","n","d","i","d","a","t","e"," ","p","r","o","f","i","l","e","s"," ",
      "a","g","a","i","n","s","t"," ","a"," ","j","o","b"," ","p","o","s","t",
      "i","n","g">>

Alice ==
    [personal_info |->
         [full_name |-> <<"A","l","i","c","e">>,
          email |-> <<"a","@","b",".","i","o">>,
          none |-> {}],
     experience |->
         << [company |-> <<"G","o","o","g","l","e">>,
             role |->
                 <<"S","e","n","i","o","r"," ","B","a","c","k","e","n","d",
                   " ","E","n","g","i","n","e","e","r">>,
             period |->
                 <<"2","0","2","2"," ","-"," ","P","r","e","s","e","n","t">>,
             technologies |->
                 << <<"P","y","t","h","o","n">>, <<"D","j","a","n","g","o">> >>,
             none |-> {}],
            [company |-> <<"A","c","m","e">>,
             role |-> <<"I","n","t","e","r","n">>,
             period |->
                 <<"J","u","n","e"," ","2","0","2","1"," ","-"," ","S","e",
                   "p","t","e","m","b","e","r"," ","2","0","2","1">>,
             technologies |-> << <<"P","y","t","h","o","n">> >>,
             none |-> {}] >>,
     skills |->
         [programming_languages |->
              << <<"P","y","t","h","o","n">>, <<"J","a","v","a">> >>,
          frameworks |-> << <<"D","j","a","n","g","o">> >>,
          none |-> {}],
     projects |->
         << [title |->
                 <<"R","a","n","k","i","n","g"," ","e","n","g","i","n","e">>,
             description |->
                 LongDescription,
             technologies |->
                 << <<"P","y","t","h","o","n">>,
                    <<"D","j","a","n","g","o">>,
                    <<"D","o","c","k","e","r">> >>,
             none |-> {}] >>,
     education |->
         << [degree |-> <<"M","a","s","t","e","r">>,
             field |->
                 <<"C","o","m","p","u","t","e","r"," ","S","c","i","e","n",
                   "c","e">>,
             institution |->
                 <<"T","e","c","h"," ","U","n","i","v","e","r","s","i","t",
                   "y">>,
             none |-> {}] >>,
     certifications |->
         << <<"A","W","S"," ","A","r","c","h","i","t","e","c","t">> >>,
     none |-> {}]

Bob ==
    [personal_info |->
         [full_name |-> <<"B","o","b">>,
          none |-> {}],
     experience |-> <<>>,
     skills |->
         [programming_languages |-> << <<"J","a","v","a">> >>,
          none |-> {}],
     projects |->
         << [title |-> <<"D","e","m","o"," ","s","h","o","p">>,
             description |-> <<>>,
             technologies |-> << <<"J","a","v","a">> >>,
             none |-> {}] >>,
     education |-> <<>>,
     certifications |-> <<>>,
     none |-> {}]

Carol ==
    [personal_info |->
         [full_name |-> <<"C","a","r","o","l">>,
          email |-> <<"c","@","d",".","f","r">>,
          none |-> {}],
     experience |->
         << [company |-> <<"C","a","p","g","e","m","i","n","i">>,
             role |-> <<"D","e","v","e","l","o","p","e","r">>,
             period |-> <<"2","0","2","5"," ","-"," ","2","0","2","0">>,
             technologies |-> << <<"J","a","v","a">> >>,
             none |-> {}],
            [company |-> <<"S","o","p","r","a"," ","S","t","e","r","i","a">>,
             role |->
                 <<"J","u","n","i","o","r"," ","d","e","v","e","l","o","p",
                   "e","r">>,
             period |-> <<>>,
             duration |-> <<"6"," ","m","o","i","s">>,
             technologies |-> << <<"R","e","a","c","t">> >>,
             none |-> {}] >>,
     skills |->
         [programming_languages |->
              << <<"J","a","v","a","S","c","r","i","p","t">> >>,
          frameworks |-> << <<"R","e","a","c","t">> >>,
          none |-> {}],
     education |->
         << [degree |-> <<"L","i","c","e","n","c","e">>,
             field |-> <<"M","a","t","h">>,
             institution |-> <<"L","y","c","e","e">>,
             none |-> {}] >>,
     none |-> {}]

Dan ==
    [none |-> {}]

Eve ==
    [personal_info |->
         [full_name |-> <<"E","v","e">>,
          none |-> {"email"}],
     skills |->
         [programming_languages |-> << <<"P","y","t","h","o","n">> >>,
          none |-> {}],
     none |-> {"experience"}]

Frank ==
    [personal_info |->
         [full_name |-> <<"F","r","a","n","k">>,
          email |-> <<"f","@","g",".","d","e">>,
          none |-> {}],
     experience |->
         << [company |-> <<"T","e","s","l","a">>,
             role |->
                 <<"B","a","c","k","e","n","d"," ","D","e","v","e","l","o",
                   "p","e","r">>,
             period |-> <<"2","0","1","9"," ","-"," ","2","0","2","3">>,
             technologies |->
                 << <<"J","a","v","a">>, <<"S","p","r","i","n","g">> >>,
             none |-> {}] >>,
     skills |->
         [programming_languages |->
              << <<"J","a","v","a">>, <<"P","y","t","h","o","n">> >>,
          databases |-> << <<"M","y","S","Q","L">> >>,
          none |-> {}],
     projects |-> <<>>,
     education |->
         << [degree |-> <<"B","a","c","h","e","l","o","r">>,
             field |-> <<"P","h","y","s","i","c","s">>,
             institution |-> <<"S","c","h","o","o","l">>,
             none |-> {}] >>,
     certifications |->
         << <<"S","c","r","u","m"," ","M","a","s","t","e","r">> >>,
     none |-> {}]


CandidateUniverse == {Alice, Bob, Carol, Dan, Eve, Frank}

ReqNames == { <<"P","y","t","h","o","n">>, <<"J","a","v","a">> }

SeqsUpTo(S, n) == UNION {[1..k -> S] : k \in 0..n}

EmptyJob == [none |-> {}]

\* job_requirements = None: the argument itself is among the None values
NoneJob == [none |-> {"self"}]

RoleJob(req) ==
    [role |-> <<"B","a","c","k","e","n","d"," ","D","e","v","e","l","o","p","e","r">>,
     field |-> <<"C","o","m","p","u","t","e","r"," ","S","c","i","e","n","c","e">>,
     required_skills |-> req,
     none |-> {}]

SkillsJob(req) == [required_skills |-> req, none |-> {}]

\* the job_requirements the command line builds; job_role is None without
\* --job-role
CliJob(with_role, req) ==
    IF with_role
    THEN [role |-> RoleJob(req).role, required_skills |-> req, none |-> {}]
    ELSE [required_skills |-> req, none |-> {"role"}]

JobUniverse ==
    {EmptyJob, NoneJob}
      \cup {RoleJob(req) : req \in SeqsUpTo(ReqNames, MaxRequired)}
      \cup {SkillsJob(req) : req \in SeqsUpTo(ReqNames, MaxRequired)}

PeriodUniverse ==
    { <<>>,
      <<"2","0","2","0"," ","-"," ","2","0","2","3">>,
      <<"2","0","2","5"," ","-"," ","2","0","2","0">>,
      <<"2","0","1","9"," ","-"," ","P","r","e","s","e","n","t">>,
      <<"J","u","n","e"," ","2","0","2","4"," ","-"," ","S","e","p","t","e",
        "m","b","e","r"," ","2","0","2","4">>,
      <<"M","a","r","s"," ","-"," ","J","u","i","n">>,
      <<"e","n"," ","c","o","u","r","s">>,
      <<"2","0","2","4">>,
      <<"1","2","/","2","0","2","0"," ","-"," ","0","3","/","2","0","2","1">>,
      <<"a","2","0","2","0"," ","-"," ","2","0","2","1","b">>,
      <<"M","a","y"," ","2","0","2","1">> }

DurationUniverse ==
    { <<>>,
      <<"6"," ","m","o","i","s">>,
      <<"1","8"," ","M","o","n","t","h","s">>,
      <<"2"," ","y","e","a","r","s">>,
      <<"3","m","o","n","t","h","s">>,
      <<"0"," ","m","o","n","t","h">> }

\* every job a call can be made with: one skill may be appended
AllJobs ==
    {EmptyJob}
      \cup {RoleJob(req) : req \in SeqsUpTo(ReqNames, MaxRequired + 1)}
      \cup {SkillsJob(req) : req \in SeqsUpTo(ReqNames, MaxRequired + 1)}
      \cup {CliJob(with_role, req) :
               with_role \in BOOLEAN, req \in SeqsUpTo(ReqNames, MaxRequired)}

\* JobDict without the test for None
JobDictUnchecked(job) == job

\* "if job_requirements is None: job_requirements = {}"
JobDict(job) == IF "self" \in job.none THEN EmptyJob ELSE job

\* what the loop body does for one candidate: it raises, or appends an entry
LoopBody(candidate, job) ==
    IF Raises(candidate, job)
    THEN [raised |-> TRUE]
    ELSE [raised |-> FALSE, entry |-> RankEntry(candidate, job)]

\* LoopBody is a function of the candidate and the job: evaluated once each
LoopBodyOf ==
    [cj \in CandidateUniverse \X AllJobs |-> LoopBody(cj[1], cj[2])]

(***************************************************************************)
(* The ranking state machine                                               *)
(***************************************************************************)
\* the three job_requirements.get calls, which raise on None
ReadJobRequirements ==
    /\ pc = "call"
    /\ pc' = IF "self" \in JobDict(job_requirements).none
             THEN "raised"
             ELSE "score"
    /\ UNCHANGED <<candidates, job_requirements, ranked_candidates, idx, prev_ranked, change, otherVars>>

\* one pass of "for candidate in candidates" that appends an entry
ScoreCandidate ==
    /\ pc = "score"
    /\ idx <= Len(candidates)
    /\ ~LoopBodyOf[<<candidates[idx], JobDict(job_requirements)>>].raised
    /\ ranked_candidates' =
           Append(ranked_candidates,
                  LoopBodyOf[<<candidates[idx], JobDict(job_requirements)>>].entry)
    /\ idx' = idx + 1
    /\ UNCHANGED <<candidates, job_requirements, pc, prev_ranked, change, otherVars>>

\* one pass of the loop in which an exception leaves rank_candidates
RaiseInCandidate ==
    /\ pc = "score"
    /\ idx <= Len(candidates)
    /\ LoopBodyOf[<<candidates[idx], JobDict(job_requirements)>>].raised
    /\ pc' = "raised"
    /\ UNCHANGED <<candidates, job_requirements, ranked_candidates, idx, prev_ranked, change, otherVars>>

SortByTotal ==
    /\ pc = "score"
    /\ idx > Len(candidates)
    /\ ranked_candidates' = SortByTotalDesc(ranked_candidates)
    /\ pc' = "tiebreak"
    /\ idx' = 1
    /\ UNCHANGED <<candidates, job_requirements, prev_ranked, change, otherVars>>

\* TieBreakStep as a bubble sort: the pass starts again after a swap
TieBreakStepRestart ==
    /\ pc = "tiebreak"
    /\ idx <= Len(ranked_candidates) - 1
    /\ ranked_candidates' =
           IF ShouldSwap(ranked_candidates[idx], ranked_candidates[idx + 1])
           THEN SwapAt(ranked_candidates, idx)
           ELSE ranked_candidates
    /\ idx' = IF ShouldSwap(ranked_candidates[idx], ranked_candidates[idx + 1])
              THEN 1
              ELSE idx + 1
    /\ UNCHANGED <<candidates, job_requirements, pc, prev_ranked, change, otherVars>>

\* one step of "for i in range(len(ranked_candidates) - 1)"
TieBreakStep ==
    /\ pc = "tiebreak"
    /\ idx <= Len(ranked_candidates) - 1
    /\ ranked_candidates' =
           IF ShouldSwap(ranked_candidates[idx], ranked_candidates[idx + 1])
           THEN SwapAt(ranked_candidates, idx)
           ELSE ranked_candidates
    /\ idx' = idx + 1
    /\ UNCHANGED <<candidates, job_requirements, pc, prev_ranked, change, otherVars>>

\* AssignRanks with candidate["rank"] = i
AssignRanksFromZero ==
    /\ pc = "tiebreak"
    /\ idx > Len(ranked_candidates) - 1
    /\ ranked_candidates' =
           [i \in DOMAIN ranked_candidates |->
               [ranked_candidates[i] EXCEPT !.rank = i - 1]]
    /\ pc' = "done"
    /\ UNCHANGED <<candidates, job_requirements, idx, prev_ranked, change, otherVars>>

\* AssignRanks with the rank written into the input profiles as well
AssignRanksOnInput ==
    /\ pc = "tiebreak"
    /\ idx > Len(ranked_candidates) - 1
    /\ ranked_candidates' =
           [i \in DOMAIN ranked_candidates |->
               [ranked_candidates[i] EXCEPT !.rank = i]]
    /\ candidates' =
           [i \in DOMAIN candidates |->
               [k \in (DOMAIN candidates[i]) \cup {"rank"} |->
                   IF k = "rank" THEN i ELSE candidates[i][k]]]
    /\ pc' = "done"
    /\ UNCHANGED <<job_requirements, idx, prev_ranked, change, otherVars>>

AssignRanks ==
    /\ pc = "tiebreak"
    /\ idx > Len(ranked_candidates) - 1
    /\ ranked_candidates' =
           [i \in DOMAIN ranked_candidates |->
               [ranked_candidates[i] EXCEPT !.rank = i]]
    /\ pc' = "done"
    /\ UNCHANGED <<candidates, job_requirements, idx, prev_ranked, change, otherVars>>

(***************************************************************************)
(* Calls of rank_candidates: a first call, then at most one more call with *)
(* the same arguments or with one more required skill                      *)
(***************************************************************************)
\* the variables of the calls that are not in progress, at their rest values
IdleExcept(running) ==
    /\ "rank" \in running
       \/ /\ candidates = <<>>
          /\ job_requirements = EmptyJob
          /\ ranked_candidates = <<>>
          /\ pc = "idle"
          /\ idx = 1
          /\ prev_ranked = <<>>
          /\ change = "none"
    /\ "duration" \in running
       \/ /\ period = <<>>
          /\ duration = <<>>
          /\ months = 0
          /\ bucket_score = 0
          /\ dpc = "idle"
    /\ "tier" \in running
       \/ /\ company_arg = <<>>
          /\ variant = <<>>
          /\ variation = "none"
          /\ tier = <<>>
          /\ variant_tier = <<>>
          /\ tpc = "idle"
    /\ "match" \in running
       \/ /\ skills_arg = <<>>
          /\ required_arg = <<>>
          /\ matched_total = <<>>
          /\ mpc = "idle"
    /\ "main" \in running
       \/ /\ cv_files = <<>>
          /\ file_idx = 1
          /\ reported = <<>>
          /\ exit_code = -1
          /\ mainpc = "idle"
    /\ "scorer" \in running
       \/ /\ scorer_call = [fn |-> "none"]
          /\ scorer_result = 0
          /\ cpc = "idle"

Init ==
    /\ candidates \in SeqsUpTo(CandidateUniverse, MaxCandidates)
    /\ job_requirements \in JobUniverse
    /\ ranked_candidates = <<>>
    /\ pc = "call"
    /\ idx = 1
    /\ prev_ranked = <<>>
    /\ change = "none"
    /\ IdleExcept({"rank"})

\* job_requirements with one more entry at the end of required_skills
WithRequiredSkill(job, skill) ==
    [k \in (DOMAIN job) \cup {"required_skills"} |->
        IF k = "required_skills"
        THEN Append(ListOf(job, "required_skills"), skill)
        ELSE job[k]]

CallAgain ==
    /\ pc = "done"
    /\ change = "none"
    /\ prev_ranked' = ranked_candidates
    /\ ranked_candidates' = NewRankedList(ranked_candidates)
    /\ pc' = "call"
    /\ idx' = 1
    /\ change' = "same"
    /\ UNCHANGED <<candidates, job_requirements, otherVars>>

CallWithAppendedSkill ==
    /\ pc = "done"
    /\ change = "none"
    /\ job_requirements # NoneJob
    /\ \E skill \in ReqNames :
          job_requirements' = WithRequiredSkill(job_requirements, skill)
    /\ prev_ranked' = ranked_candidates
    /\ ranked_candidates' = NewRankedList(ranked_candidates)
    /\ pc' = "call"
    /\ idx' = 1
    /\ change' = "append"
    /\ UNCHANGED <<candidates, otherVars>>

Next ==
    \/ ReadJobRequirements
    \/ ScoreCandidate
    \/ RaiseInCandidate
    \/ SortByTotal
    \/ TieBreakStep
    \/ AssignRanks
    \/ CallAgain
    \/ CallWithAppendedSkill

Spec == Init /\ [][Next]_vars

(***************************************************************************)
(* Properties of rank_candidates                                           *)
(***************************************************************************)
InRange(x, max_points) == 0 <= x /\ x <= max_points * Unit

\* the required skill the second call appended
AppendedSkill ==
    LET required_skills == ListOf(job_requirements, "required_skills")
    IN  required_skills[Len(required_skills)]

\* match_skills finds the skill among the skills the candidate lists
ListedSkillsMatch(candidate, skill) ==
    match_skills(AllSkills(SkillsOf(candidate)), <<skill>>)[1] = 1

\* match_skills finds the skill among the technologies of one experience
EntryMatches(exp, skill) ==
    match_skills(ListOf(exp, "technologies"), <<skill>>)[1] = 1

\* the pairs <<i, j>>: entry i of this call and entry j of the call before
\* are of the same candidate
SameCandidatePairs ==
    {ij \in (DOMAIN ranked_candidates) \X (DOMAIN prev_ranked) :
        ranked_candidates[ij[1]].raw_data = prev_ranked[ij[2]].raw_data}

\* the total of entry hi exceeds the total of entry lo by at most 2 points
WithinTwoPoints(hi, lo) ==
    /\ hi.total_score - lo.total_score > 0
    /\ hi.total_score - lo.total_score <= 2 * Unit

\* the only project of the candidate is flagged fake
SingleFakeProject(candidate) ==
    /\ Len(ListOf(candidate, "projects")) = 1
    /\ IsFake(candidate["projects"][1])

\* C1: each of the five component scores of every entry lies in its declared
\* range: experience_quality in [0,35], technical_skills in [0,25],
\* projects_impact in [0,20], education_certifications in [0,10] and
\* signal_consistency in [0,10]
ComponentScoresInRange ==
    \A i \in DOMAIN ranked_candidates :
        LET scores == ranked_candidates[i].scores
        IN  /\ InRange(scores.experience_quality, 35)
            /\ InRange(scores.technical_skills, 25)
            /\ InRange(scores.projects_impact, 20)
            /\ InRange(scores.education_certifications, 10)
            /\ InRange(scores.signal_consistency, 10)

\* C2: the total_score of every entry lies in [0,100], also for a candidate
\* whose experience, project and education lists are empty
TotalScoreInRange ==
    \A i \in DOMAIN ranked_candidates :
        InRange(ranked_candidates[i].total_score, 100)

\* a finished call that ranked a candidate with no experience, no project
\* and no education next to a candidate scoring more than 50
TotalScoreWitness ==
    /\ pc = "done"
    /\ \E i \in DOMAIN ranked_candidates :
          /\ ListOf(ranked_candidates[i].raw_data, "experience") = <<>>
          /\ ListOf(ranked_candidates[i].raw_data, "projects") = <<>>
          /\ ListOf(ranked_candidates[i].raw_data, "education") = <<>>
    /\ \E i \in DOMAIN ranked_candidates :
          ranked_candidates[i].total_score > 50 * Unit

\* C3: the signal score is penalty-only: no entry has a signal_consistency
\* above the starting value 10
SignalPenaltyOnly ==
    \A i \in DOMAIN ranked_candidates :
        ranked_candidates[i].scores.signal_consistency <= 10 * Unit

TechnicalScoreMonotone ==
    (pc = "done" /\ change = "append") =>
        \A ij \in SameCandidatePairs :
            ListedSkillsMatch(prev_ranked[ij[2]].raw_data, AppendedSkill) =>
                ranked_candidates[ij[1]].scores.technical_skills
                    >= prev_ranked[ij[2]].scores.technical_skills

\* a matched skill was appended to a list of required skills that is not
\* empty, and the technical score changed
TechnicalScoreRaised ==
    /\ pc = "done"
    /\ change = "append"
    /\ Len(ListOf(job_requirements, "required_skills")) >= 2
    /\ \E ij \in SameCandidatePairs :
          /\ ListedSkillsMatch(prev_ranked[ij[2]].raw_data, AppendedSkill)
          /\ ranked_candidates[ij[1]].scores.technical_skills
                 > prev_ranked[ij[2]].scores.technical_skills

\* C6: when the second call appends a required skill that the candidate's
\* listed skills match, the role_score of each experience entry of the
\* candidate is not lower than in the first call
RoleScoreMonotoneListed ==
    (pc = "done" /\ change = "append") =>
        \A ij \in SameCandidatePairs :
            ListedSkillsMatch(prev_ranked[ij[2]].raw_data, AppendedSkill) =>
                \A k \in DOMAIN prev_ranked[ij[2]].experience_details :
                    ranked_candidates[ij[1]].experience_details[k].role_score
                        >= prev_ranked[ij[2]].experience_details[k].role_score

\* C6, amended: when the second call appends a required skill that the
\* technologies of an experience entry match, the role_score of that entry is
\* not lower than in the first call
RoleScoreMonotoneEntry ==
    (pc = "done" /\ change = "append") =>
        \A ij \in SameCandidatePairs :
            \A k \in DOMAIN prev_ranked[ij[2]].experience_details :
                EntryMatches(prev_ranked[ij[2]].raw_data["experience"][k],
                             AppendedSkill) =>
                    ranked_candidates[ij[1]].experience_details[k].role_score
                        >= prev_ranked[ij[2]].experience_details[k].role_score

\* a skill that the technologies of an entry match was appended to a list of
\* required skills that is not empty, and the entry's role_score went up
RoleScoreRaised ==
    /\ pc = "done"
    /\ change = "append"
    /\ Len(ListOf(job_requirements, "required_skills")) >= 2
    /\ \E ij \in SameCandidatePairs :
          \E k \in DOMAIN prev_ranked[ij[2]].experience_details :
              /\ EntryMatches(prev_ranked[ij[2]].raw_data["experience"][k],
                              AppendedSkill)
              /\ ranked_candidates[ij[1]].experience_details[k].role_score
                     > prev_ranked[ij[2]].experience_details[k].role_score

\* C7: of two candidates whose totals differ by an amount in (0,2], the one
\* with the lower total gets rank 1 and the other rank 2 when the one with
\* the lower total has the strictly higher experience_quality
TwoCandidateTieBreak ==
    (pc = "done" /\ Len(candidates) = 2 /\ Len(ranked_candidates) = 2) =>
        \A hi, lo \in DOMAIN ranked_candidates :
            ( /\ WithinTwoPoints(ranked_candidates[hi], ranked_candidates[lo])
              /\ ranked_candidates[lo].scores.experience_quality
                     > ranked_candidates[hi].scores.experience_quality )
            => /\ lo = 1 /\ ranked_candidates[lo].rank = 1
               /\ hi = 2 /\ ranked_candidates[hi].rank = 2

\* two candidates were ranked, and the first of the list has the lower total,
\* within 2 points, and the higher experience_quality
LowerTotalRankedFirst ==
    /\ pc = "done"
    /\ Len(candidates) = 2
    /\ Len(ranked_candidates) = 2
    /\ WithinTwoPoints(ranked_candidates[2], ranked_candidates[1])
    /\ ranked_candidates[1].scores.experience_quality
           > ranked_candidates[2].scores.experience_quality
    /\ ranked_candidates[1].rank = 1

\* C8: a candidate whose project list is exactly one project flagged fake
\* gets a projects_impact of 0.0, whatever the experiences and the required
\* skills, the empty list of required skills included
SingleFakeScoresZero ==
    \A i \in DOMAIN ranked_candidates :
        SingleFakeProject(ranked_candidates[i].raw_data) =>
            ranked_candidates[i].scores.projects_impact = 0

\* C8, amended: a candidate whose project list is exactly one project flagged
\* fake gets a projects_impact of 0.0 when at least one required skill is
\* given, and of 4.0 when none is
SingleFakeScore ==
    \A i \in DOMAIN ranked_candidates :
        SingleFakeProject(ranked_candidates[i].raw_data) =>
            ranked_candidates[i].scores.projects_impact =
                IF ListOf(job_requirements, "required_skills") # <<>>
                THEN 0 ELSE 4 * Unit

\* a candidate with one fake project was scored against required skills
SingleFakeWithRequired ==
    /\ ListOf(job_requirements, "required_skills") # <<>>
    /\ \E i \in DOMAIN ranked_candidates :
          /\ SingleFakeProject(ranked_candidates[i].raw_data)
          /\ ranked_candidates[i].scores.projects_impact = 0

\* C9: rank_candidates never raises, whichever optional fields of a candidate
\* are missing or null
NeverRaises == pc # "raised"

\* some keyword of the table occurs in the lower-cased, stripped company name
NameHasKeywordOf(keywords, company) ==
    \E i \in DOMAIN keywords : Contains(Strip(Lower(company)), keywords[i])

NameHasNoKeyword(company) ==
    /\ ~NameHasKeywordOf(Tier1Companies, company)
    /\ ~NameHasKeywordOf(Tier2Companies, company)
    /\ ~NameHasKeywordOf(Tier3Companies, company)
    /\ ~NameHasKeywordOf(Tier4Companies, company)

\* C12: an experience whose normalized company name contains a tier-1 keyword
\* has company_score 15.0; one whose name contains no keyword of any tier
\* table is tier5 with company_score 4.95
CompanyScoreByTier ==
    \A i \in DOMAIN ranked_candidates :
        \A k \in DOMAIN ranked_candidates[i].experience_details :
            /\ NameHasKeywordOf(Tier1Companies,
                    ranked_candidates[i].experience_details[k].company)
                => ranked_candidates[i].experience_details[k].company_score
                       = 15 * Unit
            /\ NameHasNoKeyword(
                    ranked_candidates[i].experience_details[k].company)
                => /\ ranked_candidates[i].experience_details[k].tier = "tier5"
                   /\ ranked_candidates[i].experience_details[k].company_score
                          = Pts(495)

\* a scored candidate with a tier-1 experience and an unknown-company one
TierOneAndUnknownScored ==
    \E i \in DOMAIN ranked_candidates :
        \E k, l \in DOMAIN ranked_candidates[i].experience_details :
            /\ NameHasKeywordOf(Tier1Companies,
                    ranked_candidates[i].experience_details[k].company)
            /\ ranked_candidates[i].experience_details[k].company_score
                   = 15 * Unit
            /\ NameHasNoKeyword(
                    ranked_candidates[i].experience_details[l].company)
            /\ ranked_candidates[i].experience_details[l].company_score
                   = Pts(495)

\* C14: the returned list has one entry per input candidate, each input
\* echoed in raw_data as often as it was passed, and the entry at position i
\* (counted from 1) carries rank i
RankedIsPermutationWithRanks ==
    pc = "done" =>
        /\ Len(ranked_candidates) = Len(candidates)
        /\ \A c \in CandidateUniverse :
               Cardinality({i \in DOMAIN ranked_candidates :
                               ranked_candidates[i].raw_data = c})
                   = Cardinality({i \in DOMAIN candidates : candidates[i] = c})
        /\ \A i \in DOMAIN ranked_candidates : ranked_candidates[i].rank = i

\* two different candidates were returned in the reverse of their input order
ReorderedAndRanked ==
    /\ pc = "done"
    /\ Len(candidates) = 2
    /\ candidates[1] # candidates[2]
    /\ ranked_candidates[1].raw_data = candidates[2]
    /\ ranked_candidates[2].raw_data = candidates[1]
    /\ ranked_candidates[2].rank = 2

\* C15: with an empty candidate list the call does not raise and the list
\* it builds and returns is empty, whatever job_requirements is, None included
EmptyListRanksEmpty ==
    candidates = <<>> => (pc # "raised" /\ ranked_candidates = <<>>)

\* the call with no candidate and job_requirements = None has returned
EmptyListNoneJobDone ==
    /\ candidates = <<>>
    /\ job_requirements = NoneJob
    /\ pc = "done"
    /\ ranked_candidates = <<>>

\* C16: no step of a call changes the candidate profiles or the
\* job_requirements it was given, and every raw_data is one of the input
\* profiles as it was passed
InputsNeverMutated ==
    /\ [][pc \notin {"done", "idle"}
              => /\ candidates' = candidates
                 /\ job_requirements' = job_requirements]_vars
    /\ [](\A i \in DOMAIN ranked_candidates :
              \E k \in DOMAIN candidates :
                  ranked_candidates[i].raw_data = candidates[k])

\* a call over two candidates with a job has returned
TwoCandidatesReturned ==
    /\ pc = "done"
    /\ Len(candidates) = 2
    /\ Len(ranked_candidates) = 2
    /\ job_requirements \notin {EmptyJob, NoneJob}
    /\ ranked_candidates[1].raw_data \in {candidates[1], candidates[2]}

\* the entry's scores, total and explanation are those of scoring its
\* candidate alone against the job of the call
SameScoring(entry, alone) ==
    /\ entry.scores = alone.scores
    /\ entry.total_score = alone.total_score
    /\ entry.explanation = alone.explanation

ScoredAlone(entry, job) ==
    SameScoring(entry, LoopBodyOf[<<entry.raw_data, job>>].entry)

HasPhrase(entry, text) ==
    \E k \in DOMAIN entry.explanation : entry.explanation[k].phrase = text

\* C23: the explanation contains "- Limited experience" whenever
\* experience_quality < 10 and "+ Strong experience at {company}" whenever
\* experience_quality >= 25
ExperienceLadder ==
    \A i \in DOMAIN ranked_candidates :
        /\ ranked_candidates[i].scores.experience_quality < 10 * Unit
               => HasPhrase(ranked_candidates[i], "- Limited experience")
        /\ ranked_candidates[i].scores.experience_quality >= 25 * Unit
               => HasPhrase(ranked_candidates[i], "+ Strong experience at")

(***************************************************************************)
(* Calls of extract_duration_months                                        *)
(***************************************************************************)
InitDuration ==
    /\ period \in PeriodUniverse
    /\ duration \in DurationUniverse
    /\ months = 0
    /\ bucket_score = 0
    /\ dpc = "call"
    /\ IdleExcept({"duration"})

ExtractDuration ==
    /\ dpc = "call"
    /\ months' = extract_duration_months(period, duration)
    /\ dpc' = "done"
    /\ UNCHANGED <<period, duration, bucket_score, rankVars, tierVars, matchVars, mainVars, callVars>>

NextDuration == ExtractDuration

SpecDuration == InitDuration /\ [][NextDuration]_vars

\* no explicit duration parses, and the period yields neither two years nor
\* two month names
Indeterminate(per, dur) ==
    /\ dur = <<>> \/ DurationMatches(Lower(dur)) = {}
    /\ Len(YearsIn(per)) < 2
    /\ Len(MonthsIn(Lower(per))) < 2

\* C10: the months extract_duration_months returns are never negative, and
\* they are 2 whenever the duration is indeterminate, the empty period
\* included
DurationNonNegativeDefaultTwo ==
    dpc = "done" =>
        /\ months >= 0
        /\ Indeterminate(period, duration) => months = 2

(***************************************************************************)
(* The duration bucket of score_experience_quality, on a month count       *)
(***************************************************************************)
MaxMonths == 48

InitBucket ==
    /\ months \in (-MaxMonths)..MaxMonths
    /\ bucket_score = 0
    /\ dpc = "bucket"
    /\ period = <<>>
    /\ duration = <<>>
    /\ IdleExcept({"duration"})

BucketDuration ==
    /\ dpc = "bucket"
    /\ bucket_score' = DurationBucket(months)
    /\ dpc' = "scored"
    /\ UNCHANGED <<period, duration, months, rankVars, tierVars, matchVars, mainVars, callVars>>

SpecBucket == InitBucket /\ [][BucketDuration]_vars

\* C11: the duration bucket score is 2 for m < 3, 5 for 3 <= m <= 6, 7 for
\* 6 < m <= 12, 9 for 12 < m <= 24 and 10 for m > 24: 5 at m = 6, 7 at m = 12
\* and 10 at m = 36
DurationBucketBoundaries ==
    dpc = "scored" =>
        /\ months < 3 => bucket_score = 2 * Unit
        /\ (3 <= months /\ months <= 6) => bucket_score = 5 * Unit
        /\ (6 < months /\ months <= 12) => bucket_score = 7 * Unit
        /\ (12 < months /\ months <= 24) => bucket_score = 9 * Unit
        /\ months > 24 => bucket_score = 10 * Unit

\* the bucket of exactly 6 months was computed
SixMonthsScored == dpc = "scored" /\ months = 6 /\ bucket_score = 5 * Unit

(***************************************************************************)
(* get_company_tier on a company name and on a variant of its spelling     *)
(***************************************************************************)
MaxInternal == 3

CompanyNames ==
    { <<"G","o","o","g","l","e">>,
      <<"C","a","p","g","e","m","i","n","i">>,
      <<"R","e","d"," ","H","a","t">>,
      <<"S","o","p","r","a"," ","S","t","e","r","i","a">>,
      <<"D","o","c","t","o","l","i","b">>,
      <<"I","B","M">>,
      <<"A","c","m","e">>,
      <<"E","Y">>,
      <<"M","a","n","o"," ","M","a","n","o">>,
      <<>> }

\* the respellings of a name: in the other case, padded, or with one more
\* space inside
Respellings(name) ==
    { <<"upper", [i \in DOMAIN name |->
                    IF \E k \in DOMAIN LowerChars : LowerChars[k] = name[i]
                    THEN UpperChars[CHOOSE k \in DOMAIN LowerChars :
                                        LowerChars[k] = name[i]]
                    ELSE name[i]]>>,
      <<"lower", Lower(name)>>,
      <<"leading", <<" ">> \o name>>,
      <<"trailing", name \o <<" ", "\n">> >>,
      <<"around", <<"\t">> \o name \o <<" ">> >> }
    \cup { <<"internal",
             SubSeq(name, 1, k) \o <<" ">> \o SubSeq(name, k + 1, Len(name))>> :
               k \in 1..Min(MaxInternal, Len(name) - 1) }

\* the (tier_name, score_multiplier) pair get_company_tier returns
TierPair(name) ==
    <<get_company_tier(name), TierMultiplier(get_company_tier(name))>>

InitTier ==
    /\ company_arg \in CompanyNames
    /\ \E r \in Respellings(company_arg) :
           /\ variation = r[1]
           /\ variant = r[2]
    /\ tier = <<>>
    /\ variant_tier = <<>>
    /\ tpc = "call"
    /\ IdleExcept({"tier"})

GetCompanyTiers ==
    /\ tpc = "call"
    /\ tier' = TierPair(company_arg)
    /\ variant_tier' = TierPair(variant)
    /\ tpc' = "done"
    /\ UNCHANGED <<company_arg, variant, variation, rankVars, durVars, matchVars, mainVars, callVars>>

SpecTier == InitTier /\ [][GetCompanyTiers]_vars

\* C13: two company names that differ only in letter case or in whitespace
\* (leading, trailing or internal) get the same tier and multiplier
TierCaseAndSpaceInsensitive == tpc = "done" => variant_tier = tier

\* C13, amended: two company names that differ only in letter case or in
\* leading and trailing whitespace get the same tier and multiplier
TierCaseAndPaddingInsensitive ==
    (tpc = "done" /\ variation # "internal") => variant_tier = tier

\* a tier-1 name and its upper-case spelling were both looked up
UpperCaseTierOneLookedUp ==
    /\ tpc = "done"
    /\ variation = "upper"
    /\ variant # company_arg
    /\ tier = <<"tier1", 100>>
    /\ variant_tier = tier

(***************************************************************************)
(* Calls of match_skills                                                   *)
(***************************************************************************)
MaxSkills == 2

SkillNames ==
    { <<"J","a","v","a">>,
      <<"J","a","v","a","S","c","r","i","p","t">>,
      <<"j","s">>,
      <<"E","C","M","A","S","c","r","i","p","t">>,
      <<"P","y","t","h","o","n">>,
      <<"p","y">> }

InitMatch ==
    /\ skills_arg \in SeqsUpTo(SkillNames, MaxSkills)
    /\ required_arg \in SeqsUpTo(SkillNames, MaxSkills)
    /\ matched_total = <<>>
    /\ mpc = "call"
    /\ IdleExcept({"match"})

MatchSkills ==
    /\ mpc = "call"
    /\ matched_total' = match_skills(skills_arg, required_arg)
    /\ mpc' = "done"
    /\ UNCHANGED <<skills_arg, required_arg, rankVars, durVars, tierVars, mainVars, callVars>>

SpecMatch == InitMatch /\ [][MatchSkills]_vars

\* C17: match_skills returns (matched, total) with total the number of
\* required skills and 0 <= matched <= total, however many candidate skills
\* match the same required skill
MatchedAtMostTotal ==
    mpc = "done" =>
        /\ matched_total[2] = Len(required_arg)
        /\ 0 <= matched_total[1]
        /\ matched_total[1] <= matched_total[2]

\* "Python" was required once and the candidate lists both "Python" and "py"
TwoSkillsMatchOneRequired ==
    /\ mpc = "done"
    /\ required_arg = << <<"P","y","t","h","o","n">> >>
    /\ skills_arg = << <<"P","y","t","h","o","n">>, <<"p","y">> >>
    /\ matched_total = <<1, 1>>

\* the names of the JavaScript variation group, as the candidate may spell them
JavaScriptGroup ==
    { <<"J","a","v","a","S","c","r","i","p","t">>, <<"j","s">>,
      <<"E","C","M","A","S","c","r","i","p","t">> }

\* C18: a required "java" is not matched by a candidate whose only skills
\* are among "javascript", "js", "ecmascript", and a required "javascript"
\* is not matched by a candidate whose only skill is "java"
JavaSeparateFromJavaScript ==
    mpc = "done" =>
        /\ ( /\ required_arg = << <<"J","a","v","a">> >>
             /\ \A i \in DOMAIN skills_arg : skills_arg[i] \in JavaScriptGroup )
           => matched_total = <<0, 1>>
        /\ ( /\ required_arg = << <<"J","a","v","a","S","c","r","i","p","t">> >>
             /\ skills_arg = << <<"J","a","v","a">> >> )
           => matched_total = <<0, 1>>

\* "java" was required of a candidate who lists "JavaScript" and "js"
JavaRequiredOfJavaScript ==
    /\ mpc = "done"
    /\ required_arg = << <<"J","a","v","a">> >>
    /\ skills_arg = << <<"J","a","v","a","S","c","r","i","p","t">>, <<"j","s">> >>
    /\ matched_total = <<0, 1>>

(***************************************************************************)
(* The command line: load the files, rank what loaded, exit                *)
(***************************************************************************)
MaxFiles == 2

\* what opening and parsing one file path does: it raises, or yields a profile
FileOutcomes ==
    {[loads |-> FALSE]}
      \cup {[loads |-> TRUE, cv_data |-> c] : c \in CandidateUniverse}

\* the state after the arguments are parsed
InitMain ==
    /\ cv_files \in SeqsUpTo(FileOutcomes, MaxFiles)
    /\ job_requirements \in
           {CliJob(with_role, req) :
               with_role \in BOOLEAN, req \in SeqsUpTo(ReqNames, MaxRequired)}
    /\ file_idx = 1
    /\ reported = <<>>
    /\ exit_code = -1
    /\ mainpc = "load"
    /\ candidates = <<>>
    /\ ranked_candidates = <<>>
    /\ pc = "idle"
    /\ idx = 1
    /\ prev_ranked = <<>>
    /\ change = "none"
    /\ IdleExcept({"rank", "main"})

\* one pass of "for cv_file in cv_files" in which json.load returns
LoadFile ==
    /\ mainpc = "load"
    /\ file_idx <= Len(cv_files)
    /\ cv_files[file_idx].loads
    /\ candidates' = Append(candidates, cv_files[file_idx].cv_data)
    /\ file_idx' = file_idx + 1
    /\ UNCHANGED <<job_requirements, ranked_candidates, pc, idx, prev_ranked, change, cv_files, reported, exit_code, mainpc, durVars, tierVars, matchVars, callVars>>

\* one pass in which open or json.load raises: the error is printed
FailFile ==
    /\ mainpc = "load"
    /\ file_idx <= Len(cv_files)
    /\ ~cv_files[file_idx].loads
    /\ reported' = Append(reported, file_idx)
    /\ file_idx' = file_idx + 1
    /\ UNCHANGED <<rankVars, cv_files, exit_code, mainpc, durVars, tierVars, matchVars, callVars>>

\* "if not candidates: sys.exit(1)"
ExitNoCandidates ==
    /\ mainpc = "load"
    /\ file_idx > Len(cv_files)
    /\ candidates = <<>>
    /\ exit_code' = 1
    /\ mainpc' = "exited"
    /\ UNCHANGED <<rankVars, cv_files, file_idx, reported, durVars, tierVars, matchVars, callVars>>

\* the call rank_candidates(candidates, job_requirements)
RankLoaded ==
    /\ mainpc = "load"
    /\ file_idx > Len(cv_files)
    /\ candidates # <<>>
    /\ pc' = "call"
    /\ mainpc' = "rank"
    /\ UNCHANGED <<candidates, job_requirements, ranked_candidates, idx, prev_ranked, change, cv_files, file_idx, reported, exit_code, durVars, tierVars, matchVars, callVars>>

\* the results are printed and the interpreter ends
ExitAfterOutput ==
    /\ mainpc = "rank"
    /\ pc = "done"
    /\ exit_code' = 0
    /\ mainpc' = "exited"
    /\ UNCHANGED <<rankVars, cv_files, file_idx, reported, durVars, tierVars, matchVars, callVars>>

\* an exception left rank_candidates: traceback, exit status 1
ExitOnException ==
    /\ mainpc = "rank"
    /\ pc = "raised"
    /\ exit_code' = 1
    /\ mainpc' = "exited"
    /\ UNCHANGED <<rankVars, cv_files, file_idx, reported, durVars, tierVars, matchVars, callVars>>

NextMain ==
    \/ LoadFile
    \/ FailFile
    \/ ExitNoCandidates
    \/ RankLoaded
    \/ ReadJobRequirements
    \/ ScoreCandidate
    \/ RaiseInCandidate
    \/ SortByTotal
    \/ TieBreakStep
    \/ AssignRanks
    \/ ExitAfterOutput
    \/ ExitOnException

SpecMain == InitMain /\ [][NextMain]_vars

\* C19: every failing file is reported and skipped, the ranking is made over
\* the candidates that loaded, and the exit status is non-zero exactly when
\* no candidate loaded
ExitNonZeroIffNoneLoaded ==
    mainpc = "exited" =>
        /\ \A k \in DOMAIN cv_files :
               ~cv_files[k].loads <=> \E r \in DOMAIN reported : reported[r] = k
        /\ Len(candidates)
               = Cardinality({k \in DOMAIN cv_files : cv_files[k].loads})
        /\ \A i \in DOMAIN candidates :
               \E k \in DOMAIN cv_files :
                   cv_files[k].loads /\ cv_files[k].cv_data = candidates[i]
        /\ candidates # <<>> =>
               (pc = "done" /\ Len(ranked_candidates) = Len(candidates))
        /\ exit_code # 0 <=> candidates = <<>>

(***************************************************************************)
(* The sort, the tie-break pass and the ranks, on the entries the loop     *)
(* over the candidates may have appended                                   *)
(***************************************************************************)
MaxEntries == 3

\* experience, technical, projects, education and signal points of an entry
ScoreTuples == {10, 11} \X {5, 6} \X {4, 5} \X {5, 7} \X {10}

\* the entry appended for the k-th candidate, with the scores of tuple t
PassEntry(k, t) ==
    [total_score |-> (t[1] + t[2] + t[3] + t[4] + t[5]) * Unit,
     scores |-> [experience_quality |-> t[1] * Unit,
                 technical_skills |-> t[2] * Unit,
                 projects_impact |-> t[3] * Unit,
                 education_certifications |-> t[4] * Unit,
                 signal_consistency |-> t[5] * Unit],
     raw_data |-> [id |-> k, none |-> {}],
     rank |-> 0]

\* the state at the end of "for candidate in candidates"
InitPass ==
    /\ \E n \in 0..MaxEntries :
           \E t \in [1..n -> ScoreTuples] :
               /\ candidates = [k \in 1..n |-> PassEntry(k, t[k]).raw_data]
               /\ ranked_candidates = [k \in 1..n |-> PassEntry(k, t[k])]
               /\ idx = n + 1
    /\ job_requirements = EmptyJob
    /\ pc = "score"
    /\ prev_ranked = <<>>
    /\ change = "none"
    /\ IdleExcept({"rank"})

SpecPass == InitPass /\ [][SortByTotal \/ TieBreakStep \/ AssignRanks]_vars

\* entry current is strictly weaker than entry next on the first of
\* experience_quality, technical_skills, projects_impact on which they differ
WeakerOnFirstDifference(current, next) ==
    LET criteria(e) == <<e.scores.experience_quality,
                         e.scores.technical_skills,
                         e.scores.projects_impact>>
    IN  \E k \in 1..3 :
            /\ criteria(current)[k] < criteria(next)[k]
            /\ \A j \in 1..(k - 1) : criteria(current)[j] = criteria(next)[j]

EqualTotalsKeepInputOrder ==
    pc = "done" =>
        \A i, j \in DOMAIN ranked_candidates :
            (i < j /\ ranked_candidates[i].total_score
                        = ranked_candidates[j].total_score)
                => ranked_candidates[i].raw_data.id
                     < ranked_candidates[j].raw_data.id

\* two entries of equal total ranked first and third, around an entry of
\* another total that the pass moved
EqualTotalsAroundSwapped ==
    /\ pc = "done"
    /\ Len(ranked_candidates) = 3
    /\ ranked_candidates[1].total_score = ranked_candidates[3].total_score
    /\ ranked_candidates[2].total_score # ranked_candidates[1].total_score

\* C27: a candidate ranked above one with a strictly higher total is at most
\* 2 points below it, so candidates more than 2 points apart are in the
\* order of their totals
InversionsWithinTwoPoints ==
    pc = "done" =>
        \A i, j \in DOMAIN ranked_candidates :
            (i < j /\ ranked_candidates[i].total_score
                        < ranked_candidates[j].total_score)
                => ranked_candidates[j].total_score
                     - ranked_candidates[i].total_score <= 2 * Unit

\* the first candidate of the ranking is exactly 2 points below the last,
\* with a candidate between them
InvertedByTwoPoints ==
    /\ pc = "done"
    /\ Len(ranked_candidates) = 3
    /\ ranked_candidates[3].total_score - ranked_candidates[1].total_score
           = 2 * Unit

\* the position list.sort gives the entry: after the entries of higher total
\* and after the entries of equal total that come before it in the input
PositionAfterSort(entries, e) ==
    1 + Cardinality({k \in DOMAIN entries :
                        \/ entries[k].total_score > e.total_score
                        \/ /\ entries[k].total_score = e.total_score
                           /\ entries[k].raw_data.id < e.raw_data.id})

\* C28: the pass moves no candidate up by more than one position: the final
\* position is at least the position after the sort minus one
AtMostOnePositionGained ==
    pc = "done" =>
        \A i \in DOMAIN ranked_candidates :
            i >= PositionAfterSort(ranked_candidates, ranked_candidates[i]) - 1

\* the candidate first after the sort ends third, and the two others gained
\* one position each
LostTwoPositions ==
    /\ pc = "done"
    /\ Len(ranked_candidates) = 3
    /\ PositionAfterSort(ranked_candidates, ranked_candidates[3]) = 1
    /\ PositionAfterSort(ranked_candidates, ranked_candidates[1]) = 2

(***************************************************************************)
(* Calls of the scorers on arguments of their own                          *)
(***************************************************************************)
MaxScores == 5

\* per-entry experience scores, in millionths: 9.95, 20, 33.333333 and 35
EntryScores == {9950000, 20 * Unit, 33333333, 35 * Unit}

AggregateCalls ==
    {[fn |-> "aggregate", experience_scores |-> e] :
        e \in SeqsUpTo(EntryScores, MaxScores) \ {<<>>}}

MaxLanguages == 2

LanguageNames ==
    { <<"P","y","t","h","o","n">>, <<"J","a","v","a">>, <<"G","o">> }

\* two calls of score_technical_skills: with the skills, and with the skills
\* and one more programming language
TechnicalCalls ==
    {[fn |-> "technical",
      skills |-> IF with_framework
                 THEN [programming_languages |-> languages,
                       frameworks |-> << <<"D","j","a","n","g","o">> >>,
                       none |-> {}]
                 ELSE [programming_languages |-> languages, none |-> {}],
      language |-> language,
      required_skills |-> req,
      experience_technologies |-> techs] :
        languages \in SeqsUpTo(LanguageNames, MaxLanguages),
        with_framework \in BOOLEAN,
        language \in LanguageNames,
        req \in SeqsUpTo(ReqNames, MaxRequired),
        techs \in {<<>>, << <<"P","y","t","h","o","n">> >>,
                   << <<"P","y","t","h","o","n">>, <<"D","j","a","n","g","o">> >>}}

MaxProjects == 3

\* a project with or without a fake keyword in its title, using Python or Go
ProjectOf(fake, python) ==
    [title |-> IF fake THEN <<"D","e","m","o"," ","s","h","o","p">>
               ELSE <<"S","h","o","p">>,
     description |-> <<>>,
     technologies |-> IF python THEN << <<"P","y","t","h","o","n">> >>
                      ELSE << <<"G","o">> >>,
     none |-> {}]

ProjectCalls ==
    {[fn |-> "projects", projects |-> projects, required_skills |-> req] :
        projects \in SeqsUpTo({ProjectOf(fake, python) :
                                  fake \in BOOLEAN, python \in BOOLEAN},
                              MaxProjects),
        req \in {<<>>, << <<"P","y","t","h","o","n">> >>}}

MaxExperiences == 4

\* n names of two letters, all different, that start with the given letter
NamesWith(letter, n) ==
    [i \in 1..n |->
        <<letter, <<"b","c","d","e","f","g","h","i","j","k","l","m","n","o",
                    "p","q","r","s">>[i]>>]

\* score_signal_consistency on a CV with up to MaxExperiences experiences of
\* one role and one technology list, with or without an email, with skills
\* and one project that do or do not fit the experience
SignalCalls ==
    {[fn |-> "signal",
      cv_data |-> IF email
                  THEN [personal_info |-> [email |-> <<"a","@","b",".","i","o">>,
                                           none |-> {}],
                        none |-> {}]
                  ELSE [personal_info |-> [none |-> {}], none |-> {}],
      experiences |-> [i \in 1..n |->
                          [role |-> role, technologies |-> techs, none |-> {}]],
      projects |-> projects,
      skills |-> [programming_languages |-> languages, none |-> {}]] :
        email \in BOOLEAN,
        n \in 0..MaxExperiences,
        role \in {<<"I","n","t","e","r","n">>,
                  <<"D","e","v","e","l","o","p","e","r">>},
        techs \in {<<>>, << <<"G","o">> >>, NamesWith("x", 16)},
        projects \in {<<>>, <<ProjectOf(FALSE, TRUE)>>, <<ProjectOf(FALSE, FALSE)>>},
        languages \in {<<>>, << <<"J","a","v","a">> >>, << <<"G","o">> >>,
                       NamesWith("y", 11)}}

InitScorer ==
    /\ scorer_call \in AggregateCalls \cup TechnicalCalls \cup ProjectCalls
                         \cup SignalCalls
    /\ scorer_result = 0
    /\ cpc = "call"
    /\ IdleExcept({"scorer"})

\* lines 339-361 of score_experience_quality, on the scores of the loop
AggregateExperience ==
    /\ cpc = "call"
    /\ scorer_call.fn = "aggregate"
    /\ scorer_result' =
           ExperienceResult([i \in DOMAIN scorer_call.experience_scores |->
               [exp_score |-> scorer_call.experience_scores[i]]]).score
    /\ cpc' = "done"
    /\ UNCHANGED <<scorer_call, rankVars, durVars, tierVars, matchVars, mainVars>>

\* skills with one more entry at the end of programming_languages
WithLanguage(skills, language) ==
    [skills EXCEPT !.programming_languages = Append(@, language)]

ScoreTechnicalSkills ==
    /\ cpc = "call"
    /\ scorer_call.fn = "technical"
    /\ scorer_result' =
           <<score_technical_skills(scorer_call.skills,
                                    scorer_call.required_skills,
                                    scorer_call.experience_technologies).score,
             score_technical_skills(WithLanguage(scorer_call.skills,
                                                 scorer_call.language),
                                    scorer_call.required_skills,
                                    scorer_call.experience_technologies).score>>
    /\ cpc' = "done"
    /\ UNCHANGED <<scorer_call, rankVars, durVars, tierVars, matchVars, mainVars>>

\* details["relevance_penalty"] of score_projects_impact
ProjectsPenaltyOf(projects, real, required_skills) ==
    IF projects = <<>> THEN 0
    ELSE RelevancePenalty(required_skills,
                          Count([i \in DOMAIN real |->
                                    ProjectMatched(real[i], required_skills) > 0]),
                          Len(projects))

ScoreProjectsImpact ==
    /\ cpc = "call"
    /\ scorer_call.fn = "projects"
    /\ scorer_result' =
           [score |-> score_projects_impact(scorer_call.projects, <<>>,
                                            scorer_call.required_skills),
            relevance_penalty |->
                ProjectsPenaltyOf(scorer_call.projects,
                                  SelectSeq(scorer_call.projects,
                                            LAMBDA p : ~IsFake(p)),
                                  scorer_call.required_skills)]
    /\ cpc' = "done"
    /\ UNCHANGED <<scorer_call, rankVars, durVars, tierVars, matchVars, mainVars>>

ScoreSignalConsistency ==
    /\ cpc = "call"
    /\ scorer_call.fn = "signal"
    /\ scorer_result' =
           score_signal_consistency(scorer_call.cv_data, scorer_call.experiences,
                                    scorer_call.projects, scorer_call.skills)
    /\ cpc' = "done"
    /\ UNCHANGED <<scorer_call, rankVars, durVars, tierVars, matchVars, mainVars>>

NextScorer ==
    \/ AggregateExperience
    \/ ScoreTechnicalSkills
    \/ ScoreProjectsImpact
    \/ ScoreSignalConsistency

SpecScorer == InitScorer /\ [][NextScorer]_vars

\* the greatest of the scores
Best(e) == CHOOSE x \in {e[i] : i \in DOMAIN e} : \A i \in DOMAIN e : x >= e[i]

\* C22: with one entry the experience score is the entry's score capped at
\* 35; with n >= 2 entries it is min(35, 0.5 * best + 0.5 * average of the
\* n - 1 others + 1.5 * min(n - 1, 3)); the result is rounded to two
\* decimals like every returned score
ExperienceAggregation ==
    (cpc = "done" /\ scorer_call.fn = "aggregate") =>
        LET e == scorer_call.experience_scores
            n == Len(e)
        IN  scorer_result =
                Round2(IF n = 1
                       THEN Min(e[1], 35 * Unit)
                       ELSE Min(35 * Unit,
                                Ratio(Best(e)
                                        + Ratio(SumSeq(e) - Best(e), n - 1), 2)
                                  + Pts(150) * Min(n - 1, 3)))

\* five entries were aggregated below the cap: the bonus stood at 4.5
FiveEntriesAggregated ==
    /\ cpc = "done"
    /\ scorer_call.fn = "aggregate"
    /\ Len(scorer_call.experience_scores) = 5
    /\ scorer_result < 35 * Unit

\* C24: one more entry in programming_languages, all other inputs unchanged,
\* never lowers the score score_technical_skills returns
MoreLanguagesNeverLower ==
    (cpc = "done" /\ scorer_call.fn = "technical") =>
        scorer_result[2] >= scorer_result[1]

\* the penalty the rule of C25 gives for n projects of which m match
PenaltyRule(required_skills, m, n) ==
    IF required_skills = <<>> THEN 0
    ELSE IF m = 0 THEN -6 * Unit
    ELSE IF 2 * m < n THEN -3 * Unit
    ELSE 0

\* the projects of the list with a technology that matches a required skill
MatchingProjects(projects, required_skills) ==
    {i \in DOMAIN projects : ProjectMatched(projects[i], required_skills) > 0}

\* C25 as stated: for a non-empty project list the penalty is -6 when no
\* project matches a required skill, -3 when some do but fewer than half of
\* all projects, 0 otherwise, and 0 without required skills
RelevancePenaltyOfAllProjects ==
    (cpc = "done" /\ scorer_call.fn = "projects" /\ scorer_call.projects # <<>>) =>
        scorer_result.relevance_penalty =
            PenaltyRule(scorer_call.required_skills,
                        Cardinality(MatchingProjects(scorer_call.projects,
                                                     scorer_call.required_skills)),
                        Len(scorer_call.projects))

\* C25 amended: the matching projects are counted among the projects that are
\* not fake, and compared with half the number of all projects, fake ones too
RelevancePenaltyOfRealProjects ==
    (cpc = "done" /\ scorer_call.fn = "projects" /\ scorer_call.projects # <<>>) =>
        scorer_result.relevance_penalty =
            PenaltyRule(scorer_call.required_skills,
                        Cardinality({i \in MatchingProjects(scorer_call.projects,
                                                            scorer_call.required_skills) :
                                        ~IsFake(scorer_call.projects[i])}),
                        Len(scorer_call.projects))

\* one matching project and two fake ones: the mild penalty
MildPenaltyWithFakes ==
    /\ cpc = "done"
    /\ scorer_call.fn = "projects"
    /\ Len(scorer_call.projects) = 3
    /\ Cardinality({i \in DOMAIN scorer_call.projects :
                       IsFake(scorer_call.projects[i])}) = 2
    /\ scorer_result.relevance_penalty = -3 * Unit

\* C29: the worst deductions of score_signal_consistency exclude each
\* other, so the score it returns is never below 6.0
SignalScoreAtLeastSix ==
    (cpc = "done" /\ scorer_call.fn = "signal") => scorer_result >= 6 * Unit

\* more than three junior experiences, skills and project that fit none of
\* them, no email: 10 - 3 - 0.75 - 0.25
StuckJuniorScoresSix ==
    /\ cpc = "done"
    /\ scorer_call.fn = "signal"
    /\ Len(scorer_call.experiences) > 3
    /\ scorer_result = 6 * Unit

\* C30: the core part is at most 15 and the depth part at most 5, so
\* score_technical_skills returns at most 20 and its cap of 25 never binds
TechnicalScoreAtMostTwenty ==
    (cpc = "done" /\ scorer_call.fn = "technical") =>
        /\ scorer_result[1] <= 20 * Unit
        /\ scorer_result[2] <= 20 * Unit

\* every required skill matched and language and framework both used in the
\* experience: 15 + 5
TechnicalScoreOfTwenty ==
    /\ cpc = "done"
    /\ scorer_call.fn = "technical"
    /\ "frameworks" \in DOMAIN scorer_call.skills
    /\ Len(scorer_call.experience_technologies) = 2
    /\ scorer_result[1] = 20 * Unit

====
